---- MODULE Spec2Model ----
(***************************************************************************)
(* TextureProvider: the retrieval chain (retrieval/chain.rs), the storage  *)
(* backends (storage/local.rs, storage/s3.rs), the storage retriever       *)
(* (retrieval/storage_retriever.rs) and the upload handler (handlers.rs).  *)
(*                                                                         *)
(* Three specifications share the variables:                               *)
(*   SpecChain    one ChainRetriever serving requests, one member          *)
(*                invocation at a time;                                    *)
(*   SpecStorage  the same StoreFile / GetFile calls applied to a          *)
(*                LocalStorage and to an S3Storage;                        *)
(*   Spec         uploads followed by StorageRetriever requests.           *)
(***************************************************************************)
EXTENDS Integers, Sequences, FiniteSets, TLC

\* ------------------------------------------------------------------ bounds

\* Longest chain of handlers Init builds.
MaxChainLen == 3

\* Number of distinct uploaded payloads.
NumPayloads == 2

\* Most members of a retriever the service is given to serve with.
MaxMembers == 2

\* The connections whose requests the service handles at the same time.
Connections == {1, 2}

\* -------------------------------------------------------------- data model

\* models.rs: enum TextureType { SKIN, CAPE }
TextureType == {"SKIN", "CAPE"}

\* TextureType::file_extension: "png" for every variant.
file_extension(texture_type) ==
    CASE texture_type = "SKIN" -> "png"
      [] texture_type = "CAPE" -> "png"

\* handlers.rs is_png: the 8-byte PNG signature.
PNG_SIGNATURE == <<137, 80, 78, 71, 13, 10, 26, 10>>

\* The payloads of the model: 10-byte, signature-prefixed byte sequences.
Payload(n) == PNG_SIGNATURE \o <<n, n>>

Payloads == {Payload(n) : n \in 1..NumPayloads}

\* The user_uuid values of the requests: two users.
Users == {"uuid-1", "uuid-2"}

\* StorageBackend::calculate_hash: hex(SHA-256(bytes)). The hash is a free
\* constructor over the bytes: deterministic, and collision-free on the
\* payloads of the model.
calculate_hash(bytes) == [sha256 |-> bytes]

\* Option / Result values: Ok(Some(v)), Ok(None), Err(e).
OkSome(v) == [tag |-> "Some", value |-> v]

OkNone == [tag |-> "None", value |-> "none"]

Err(e) == [tag |-> "Err", value |-> e]

NoMetadata == "none"

\* backend.rs: struct RetrievedTexture { url, hash, metadata }
RetrievedTexture(url, hash, metadata) ==
    [url |-> url, hash |-> hash, metadata |-> metadata]

\* backend.rs: struct RetrievedTextureBytes { hash, bytes, metadata }
RetrievedTextureBytes(hash, bytes, metadata) ==
    [hash |-> hash, bytes |-> bytes, metadata |-> metadata]

\* A URL "<prefix><hash><suffix>".
Url(prefix, hash, suffix) == [prefix |-> prefix, hash |-> hash, suffix |-> suffix]

\* ---------------------------------------------------------------- variables

VARIABLES
    \* ChainRetriever (retrieval/chain.rs)
    handlers,   \* ChainRetriever.handlers: the members, in construction order
    pc,         \* where the chain operation stands: idle, loop, await, returned
    request,    \* the operation being served and its arguments
    index,      \* the loop's position in handlers (1-based)
    inflight,   \* positions of the members whose future is being awaited
    invoked,    \* the member invocations completed in this operation, in order
    result,     \* what the operation returned to its caller
    \* StorageBackend (storage/local.rs, storage/s3.rs)
    objects,    \* per backend: the files under storage_path, the bucket's objects
    lastCall,   \* the last StoreFile / GetFile call, its faults and outcomes
    stored,     \* per backend and (hash, extension): the bytes of the last
                \* StoreFile, when it succeeded
    storedHashes, \* the hashes some StoreFile call was made for
    faulted,    \* some call so far met an unreachable backend
    \* the service: AppState and one HTTP request (main.rs, handlers.rs)
    storage_type, \* config.storage_type: the backend create_storage built
    textures,   \* the textures table: one row per (user_uuid, texture_type)
    http,       \* the request being handled and how far its handler got
    uploaded,   \* per (user, type): the file and URL of the last upload
                \* that answered 200
    \* the process (main.rs) and the retriever it serves with
    boot,       \* where main stands, the Config it loaded, what it has built
    retriever,  \* AppState.retriever: a single retriever or a ChainRetriever
    \* the database's second table, and the requests served at the same time
    username_mappings, \* the username_mappings table: rows (user_uuid, username)
    tasks       \* per connection: the request its handler serves, and how far
                \* the handler got

storageVars == <<objects, lastCall, stored, storedHashes, faulted>>

serviceVars == <<storage_type, textures, http, uploaded>>

bootVars == <<boot, retriever>>

taskVars == <<username_mappings, tasks>>

vars == <<handlers, pc, request, index, inflight, invoked, result,
          storageVars, serviceVars, bootVars, taskVars>>

chainVars == <<handlers, pc, request, index, inflight, invoked, result>>

\* ------------------------------------------------ the retrievers as members

\* A chain member: one of the TextureRetriever implementations. The test
\* double of chain.rs (MockRetriever) carries its supported_types.
Member(name) == [retriever |-> name, supported_types |-> {}]

MockRetriever(supported) == [retriever |-> "Mock", supported_types |-> supported]

\* The supported_types the MockRetriever members of the model are built with.
MockSupported == {{}, {"CAPE"}}

MemberUniverse ==
    {Member("Storage"), Member("Mojang"), Member("DefaultSkin"),
     Member("EmbeddedDefault")}
        \cup {MockRetriever(s) : s \in MockSupported}

\* supports_texture_type of each implementation.
supports_texture_type(h, texture_type) ==
    CASE h.retriever = "Storage" -> texture_type \in {"SKIN", "CAPE"}
      [] h.retriever = "Mojang" -> texture_type \in {"SKIN", "CAPE"}
      [] h.retriever = "DefaultSkin" -> texture_type = "SKIN"
      [] h.retriever = "EmbeddedDefault" -> texture_type = "SKIN"
      [] h.retriever = "Mock" -> texture_type \in h.supported_types

\* EmbeddedDefaultSkinRetriever: the bytes it is constructed with, and the hash
\* new() computes from them.
default_skin_data == PNG_SIGNATURE \o <<0, 0>>

default_skin_hash == calculate_hash(default_skin_data)

\* DefaultSkinRetriever::new: the fixed hash and URL of the Steve skin. The
\* hash is a literal; SteveImage stands for the image it was computed from.
SteveImage == <<83, 116, 101, 118, 101>>

default_steve_hash == calculate_hash(SteveImage)

default_steve_url == Url("http://textures.minecraft.net/texture/", default_steve_hash, "")

\* The hashes a by-hash request of the chain model asks for.
RequestHashes == {default_skin_hash, default_steve_hash, calculate_hash(Payload(1))}

\* What the Storage and Mojang members of the chain model answer with when
\* they have the texture (the chain passes the value through untouched).
SampleTexture(prefix) ==
    RetrievedTexture(Url(prefix, calculate_hash(Payload(1)), ""),
                     calculate_hash(Payload(1)), NoMetadata)

SampleBytes(hash) == RetrievedTextureBytes(hash, Payload(1), NoMetadata)

\* StorageRetriever as a chain member: a record or none, or a failing query.
StorageOutcomes(op, texture_type, hash) ==
    CASE op = "get_texture" ->
            {OkSome(SampleTexture("BASE_URL/")), OkNone, Err("database error")}
      [] op = "get_texture_bytes" ->
            {OkSome(SampleBytes(calculate_hash(Payload(1)))), OkNone,
             Err("database error")}
      [] op = "get_texture_bytes_by_hash" ->
            {OkSome(SampleBytes(hash)), OkNone, Err("database error")}

\* MojangRetriever as a chain member: a texture, none, or a failed or
\* malformed response.
MojangOutcomes(op, texture_type, hash) ==
    CASE op = "get_texture" ->
            {OkSome(SampleTexture("https://textures.minecraft.net/texture/")),
             OkNone, Err("Profile does not have textures property")}
      [] op = "get_texture_bytes" ->
            {OkSome(SampleBytes(calculate_hash(Payload(1)))), OkNone,
             Err("Profile does not have textures property")}
      [] op = "get_texture_bytes_by_hash" ->
            {OkSome(SampleBytes(hash)), OkNone, Err("request failed")}

\* DefaultSkinRetriever.
DefaultSkinOutcomes(op, texture_type, hash) ==
    CASE op = "get_texture" ->
            IF texture_type = "SKIN"
            THEN {OkSome(RetrievedTexture(default_steve_url, default_steve_hash,
                                          NoMetadata))}
            ELSE {OkNone}
      [] op = "get_texture_bytes" -> {OkNone}
      [] op = "get_texture_bytes_by_hash" ->
            IF hash = default_steve_hash
            THEN {OkSome(RetrievedTextureBytes(default_steve_hash, SteveImage,
                                               NoMetadata)),
                  OkNone, Err("request failed")}
            ELSE {OkNone}

\* EmbeddedDefaultSkinRetriever.
EmbeddedDefaultOutcomes(op, texture_type, hash) ==
    CASE op = "get_texture" ->
            IF texture_type = "SKIN"
            THEN {OkSome(RetrievedTexture(
                      Url("BASE_URL/download/", default_skin_hash, ""),
                      default_skin_hash, NoMetadata))}
            ELSE {OkNone}
      [] op = "get_texture_bytes" ->
            IF texture_type = "SKIN"
            THEN {OkSome(RetrievedTextureBytes(default_skin_hash,
                                               default_skin_data, NoMetadata))}
            ELSE {OkNone}
      [] op = "get_texture_bytes_by_hash" ->
            IF hash = default_skin_hash
            THEN {OkSome(RetrievedTextureBytes(default_skin_hash,
                                               default_skin_data, NoMetadata))}
            ELSE {OkNone}

\* MockRetriever of chain.rs: should_fail and should_return are the test's
\* choice; get_texture_bytes_by_hash is the trait's default.
MockOutcomes(h, op, texture_type, hash) ==
    CASE op = "get_texture" ->
            {Err("Mock failure"), OkNone}
                \cup (IF texture_type \in h.supported_types
                      THEN {OkSome(SampleTexture("http://example.com/"))}
                      ELSE {})
      [] op = "get_texture_bytes" -> {Err("Mock failure"), OkNone}
      [] op = "get_texture_bytes_by_hash" -> {OkNone}

\* The results an invocation of member h can complete with.
MemberOutcomes(h, req) ==
    CASE h.retriever = "Storage" ->
            StorageOutcomes(req.op, req.texture_type, req.hash)
      [] h.retriever = "Mojang" ->
            MojangOutcomes(req.op, req.texture_type, req.hash)
      [] h.retriever = "DefaultSkin" ->
            DefaultSkinOutcomes(req.op, req.texture_type, req.hash)
      [] h.retriever = "EmbeddedDefault" ->
            EmbeddedDefaultOutcomes(req.op, req.texture_type, req.hash)
      [] h.retriever = "Mock" ->
            MockOutcomes(h, req.op, req.texture_type, req.hash)

\* ------------------------------------------------------ the ChainRetriever

\* The operations of the chain that loop over the handlers.
ChainOps == {"get_texture", "get_texture_bytes", "get_texture_bytes_by_hash"}

\* Mutant: get_texture_bytes_by_hash tests supports_texture_type as well.
KindScoped_ByHashToo(op) == op \in ChainOps

\* get_texture and get_texture_bytes test supports_texture_type before they
\* invoke a handler; get_texture_bytes_by_hash does not.
KindScoped(op) == op \in {"get_texture", "get_texture_bytes"}

Request(op, texture_type, hash) ==
    [op |-> op, texture_type |-> texture_type, hash |-> hash]

Requests ==
    {Request(op, t, "-") : op \in {"get_texture", "get_texture_bytes"},
                           t \in TextureType}
        \cup {Request("get_texture_bytes_by_hash", "-", h) : h \in RequestHashes}

NoResult == [tag |-> "Pending", value |-> "none"]

\* Mutant: no supports_texture_type test before the invocation.
ShouldSkip_NoFilter(h, req) == FALSE

\* chain.rs 48 and 108: `if !handler.supports_texture_type(texture_type)
\* { continue; }`.
ShouldSkip(h, req) ==
    KindScoped(req.op) /\ ~supports_texture_type(h, req.texture_type)

\* Mutant: an error ends the loop (`.await?`).
Continues_AbortOnError(outcome) == outcome.tag = "None"

\* Mutant: the loop never returns from inside, it runs to the end.
Continues_Always(outcome) == TRUE

\* chain.rs 63-88: Ok(Some(_)) returns; Ok(None) and Err(_) fall through to
\* the next iteration.
Continues(outcome) == outcome.tag \in {"None", "Err"}

\* Mutant: a failed handler is tried again.
NextIndex_RetryOnError(i, outcome) == IF outcome.tag = "Err" THEN i ELSE i + 1

\* The for loop's step: the next handler, whatever the outcome was.
NextIndex(i, outcome) == i + 1

\* Mutant: an exhausted chain is an error.
ExhaustedResult_Error == Err("No handler could retrieve the texture")

\* chain.rs 97, 135, 167: `Ok(None)` after the loop.
ExhaustedResult == OkNone

\* Mutant: the chain supports what every handler supports.
AnySupports_All(hs, texture_type) ==
    \A i \in 1..Len(hs) : supports_texture_type(hs[i], texture_type)

RECURSIVE AnyFrom(_, _, _)
\* Iterator::any over handlers from position i on: stops at the first handler
\* that supports the type.
AnyFrom(hs, i, texture_type) ==
    IF i > Len(hs) THEN FALSE
    ELSE IF supports_texture_type(hs[i], texture_type) THEN TRUE
    ELSE AnyFrom(hs, i + 1, texture_type)

\* ChainRetriever::supports_texture_type.
AnySupports(hs, texture_type) == AnyFrom(hs, 1, texture_type)

\* A caller starts get_texture, get_texture_bytes or
\* get_texture_bytes_by_hash: the loop is at the first handler.
ChainCall(req) ==
    /\ pc = "idle"
    /\ pc' = "loop"
    /\ request' = req
    /\ index' = 1
    /\ invoked' = <<>>
    /\ result' = NoResult
    /\ UNCHANGED <<handlers, inflight>>
    /\ UNCHANGED <<storageVars, serviceVars, bootVars, taskVars>>

\* The handler at index does not support the requested type: continue.
ChainSkip ==
    /\ pc = "loop"
    /\ index <= Len(handlers)
    /\ ShouldSkip(handlers[index], request)
    /\ index' = index + 1
    /\ UNCHANGED <<handlers, pc, request, inflight, invoked, result>>
    /\ UNCHANGED <<storageVars, serviceVars, bootVars, taskVars>>

\* The handler at index is invoked; the chain awaits its future.
ChainInvoke ==
    /\ pc = "loop"
    /\ index <= Len(handlers)
    /\ ~ShouldSkip(handlers[index], request)
    /\ inflight' = inflight \cup {index}
    /\ pc' = "await"
    /\ UNCHANGED <<handlers, request, index, invoked, result>>
    /\ UNCHANGED <<storageVars, serviceVars, bootVars, taskVars>>

\* The awaited handler completes with some outcome: the chain returns it, or
\* goes on to the next handler.
ChainAwait ==
    /\ pc = "await"
    /\ \E outcome \in MemberOutcomes(handlers[index], request) :
          /\ inflight' = inflight \ {index}
          /\ invoked' = Append(invoked, [index |-> index, outcome |-> outcome])
          /\ IF Continues(outcome)
             THEN /\ index' = NextIndex(index, outcome)
                  /\ pc' = "loop"
                  /\ result' = result
             ELSE /\ result' = outcome
                  /\ pc' = "returned"
                  /\ index' = index
    /\ UNCHANGED <<handlers, request>>
    /\ UNCHANGED <<storageVars, serviceVars, bootVars, taskVars>>

\* The loop ran past the last handler.
ChainExhausted ==
    /\ pc = "loop"
    /\ index > Len(handlers)
    /\ result' = ExhaustedResult
    /\ pc' = "returned"
    /\ UNCHANGED <<handlers, request, index, inflight, invoked>>
    /\ UNCHANGED <<storageVars, serviceVars, bootVars, taskVars>>

\* ChainRetriever::supports_texture_type, called and answered in one step.
ChainSupports(texture_type) ==
    /\ pc = "idle"
    /\ request' = Request("supports_texture_type", texture_type, "-")
    /\ result' = [tag |-> "Bool", value |-> AnySupports(handlers, texture_type)]
    /\ pc' = "returned"
    /\ UNCHANGED <<handlers, index, inflight, invoked>>
    /\ UNCHANGED <<storageVars, serviceVars, bootVars, taskVars>>

\* The caller has its result; the chain is ready for the next request.
ChainDone ==
    /\ pc = "returned"
    /\ pc' = "idle"
    /\ request' = Request("none", "-", "-")
    /\ index' = 1
    /\ invoked' = <<>>
    /\ result' = NoResult
    /\ UNCHANGED <<handlers, inflight>>
    /\ UNCHANGED <<storageVars, serviceVars, bootVars, taskVars>>

\* ChainRetriever::new over every member list up to MaxChainLen.
Chains == UNION {[1..n -> MemberUniverse] : n \in 0..MaxChainLen}

ChainInit ==
    /\ handlers \in Chains
    /\ pc = "idle"
    /\ request = Request("none", "-", "-")
    /\ index = 1
    /\ inflight = {}
    /\ invoked = <<>>
    /\ result = NoResult

ChainNext ==
    \/ \E req \in Requests : ChainCall(req)
    \/ ChainSkip
    \/ ChainInvoke
    \/ ChainAwait
    \/ ChainExhausted
    \/ \E t \in TextureType : ChainSupports(t)
    \/ ChainDone


\* ------------------------------------------------- claims about the chain

\* The operation in progress is one of the looping chain operations.
InChainOp == request.op \in ChainOps

\* Position i was invoked in this operation and completed.
WasInvoked(i) == \E k \in 1..Len(invoked) : invoked[k].index = i

\* The chain may invoke position i for the request: every position for a
\* by-hash request, the supporting ones for a kind-scoped request.
Consultable(i) ==
    \/ request.op = "get_texture_bytes_by_hash"
    \/ /\ KindScoped(request.op)
       /\ supports_texture_type(handlers[i], request.texture_type)

\* Some completed invocation at a position before i gave a non-empty result.
AnsweredBefore(i) ==
    \E k \in 1..Len(invoked) :
        invoked[k].index < i /\ invoked[k].outcome.tag = "Some"

\* C1: in get_texture and get_texture_bytes, a member's non-empty success is
\* the chain's result at once: it is returned as it is, it is the last
\* invocation of the operation, every supporting member before it was
\* consulted and gave empty or an error, and no member after it is invoked.
C1_FirstMatchWins ==
    KindScoped(request.op) =>
        /\ \A k \in 1..Len(invoked) :
              invoked[k].outcome.tag = "Some" =>
                  /\ pc = "returned"
                  /\ result = invoked[k].outcome
                  /\ k = Len(invoked)
                  /\ inflight = {}
                  /\ \A j \in 1..Len(invoked) :
                        invoked[j].index <= invoked[k].index
                  /\ \A i \in 1..(invoked[k].index - 1) :
                        supports_texture_type(handlers[i], request.texture_type)
                            => \E j \in 1..(k - 1) :
                                  /\ invoked[j].index = i
                                  /\ invoked[j].outcome.tag # "Some"
        /\ (pc = "returned" /\ result.tag = "Some") =>
              /\ Len(invoked) > 0
              /\ invoked[Len(invoked)].outcome = result

\* C1 witness: the second of three supporting members answered a
\* get_texture_bytes request after the first gave empty; the third was left
\* alone.
C1_Witness ==
    /\ pc = "returned"
    /\ request.op = "get_texture_bytes"
    /\ Len(handlers) = 3
    /\ \A i \in 1..3 : supports_texture_type(handlers[i], request.texture_type)
    /\ Len(invoked) = 2
    /\ invoked[1].index = 1 /\ invoked[1].outcome.tag = "None"
    /\ invoked[2].index = 2 /\ invoked[2].outcome.tag = "Some"
    /\ result = invoked[2].outcome

\* C2: a member's error does not end the operation: the chain's result is
\* never that error, every consultable member after the failed one is invoked
\* until one answers, and a non-empty result of a later member is the chain's
\* result. In particular a failing Mojang member followed by an
\* EmbeddedDefault member gives the embedded default for a SKIN request.
C2_ContinuesOnError ==
    (pc = "returned" /\ InChainOp) =>
        \A k \in 1..Len(invoked) :
            invoked[k].outcome.tag = "Err" =>
                /\ result.tag # "Err"
                /\ \A j \in (invoked[k].index + 1)..Len(handlers) :
                      Consultable(j) => (WasInvoked(j) \/ AnsweredBefore(j))
                /\ \A k2 \in (k + 1)..Len(invoked) :
                      invoked[k2].outcome.tag = "Some"
                          => result = invoked[k2].outcome
                /\ ( /\ handlers[invoked[k].index].retriever = "Mojang"
                     /\ invoked[k].index < Len(handlers)
                     /\ handlers[invoked[k].index + 1].retriever = "EmbeddedDefault"
                     /\ KindScoped(request.op)
                     /\ request.texture_type = "SKIN" )
                   => /\ result.tag = "Some"
                      /\ result.value.hash = default_skin_hash
                      /\ request.op = "get_texture_bytes"
                            => result.value.bytes = default_skin_data

\* C2 witness: scenario D, a Mojang member failed on the profile payload and
\* the EmbeddedDefault member after it answered.
C2_Witness ==
    /\ pc = "returned"
    /\ request = Request("get_texture", "SKIN", "-")
    /\ Len(handlers) = 2
    /\ handlers[1].retriever = "Mojang"
    /\ handlers[2].retriever = "EmbeddedDefault"
    /\ Len(invoked) = 2
    /\ invoked[1].outcome = Err("Profile does not have textures property")
    /\ result.tag = "Some"
    /\ result.value.hash = default_skin_hash

\* C3: get_texture, get_texture_bytes and get_texture_bytes_by_hash of the
\* chain never return an error, and return empty when no invoked member gave
\* a non-empty result (the empty chain included).
C3_NeverAnError ==
    (pc = "returned" /\ InChainOp) =>
        /\ result.tag \in {"Some", "None"}
        /\ (\A k \in 1..Len(invoked) : invoked[k].outcome.tag \in {"None", "Err"})
              => result = OkNone

\* C3 witness: a by-hash request whose two members gave an error and empty.
C3_Witness ==
    /\ pc = "returned"
    /\ request.op = "get_texture_bytes_by_hash"
    /\ Len(handlers) = 2
    /\ Len(invoked) = 2
    /\ invoked[1].outcome.tag = "Err"
    /\ invoked[2].outcome.tag = "None"
    /\ result = OkNone

\* C4: in get_texture and get_texture_bytes no member that does not support
\* the requested type is invoked or in flight, and a skipped member costs
\* nothing: every supporting member after it is still consulted until one
\* answers, and the result is not an error.
C4_KindFilter ==
    KindScoped(request.op) =>
        /\ \A k \in 1..Len(invoked) :
              supports_texture_type(handlers[invoked[k].index], request.texture_type)
        /\ \A i \in inflight :
              supports_texture_type(handlers[i], request.texture_type)
        /\ pc = "returned" =>
              /\ result.tag # "Err"
              /\ \A j \in 1..Len(handlers) :
                    supports_texture_type(handlers[j], request.texture_type)
                        => (WasInvoked(j) \/ AnsweredBefore(j))

\* C4 witness: a CAPE request whose first member supports SKIN only was
\* answered by the second member.
C4_Witness ==
    /\ pc = "returned"
    /\ request.op = "get_texture"
    /\ request.texture_type = "CAPE"
    /\ Len(handlers) >= 2
    /\ ~supports_texture_type(handlers[1], "CAPE")
    /\ Len(invoked) = 1
    /\ invoked[1].index = 2
    /\ result.tag = "Some"

\* C5: at most one member is in flight, the in-flight member comes after
\* every completed one, and the completed invocations are at strictly
\* increasing positions: each member is invoked at most once per operation,
\* a failed one included.
C5_Sequential ==
    /\ Cardinality(inflight) <= 1
    /\ (inflight # {}) => (pc = "await" /\ inflight = {index})
    /\ \A i \in inflight : \A k \in 1..Len(invoked) : invoked[k].index < i
    /\ \A j, k \in 1..Len(invoked) :
          j < k => invoked[j].index < invoked[k].index

\* C5 witness: the third member is in flight after the first failed and the
\* second gave empty.
C5_Witness ==
    /\ pc = "await"
    /\ inflight = {3}
    /\ Len(invoked) = 2
    /\ invoked[1].index = 1 /\ invoked[1].outcome.tag = "Err"
    /\ invoked[2].index = 2 /\ invoked[2].outcome.tag = "None"

\* C6: supports_texture_type of the chain is true exactly when some member
\* supports the type, and false for the chain with no members.
C6_SupportsIsAny ==
    (pc = "returned" /\ request.op = "supports_texture_type") =>
        /\ result.value =
              (\E i \in 1..Len(handlers) :
                  supports_texture_type(handlers[i], request.texture_type))
        /\ handlers = <<>> => result.value = FALSE

\* C6 witness: a chain whose last member alone supports CAPE answers true.
C6_Witness ==
    /\ pc = "returned"
    /\ request = Request("supports_texture_type", "CAPE", "-")
    /\ Len(handlers) = 3
    /\ ~supports_texture_type(handlers[1], "CAPE")
    /\ ~supports_texture_type(handlers[2], "CAPE")
    /\ supports_texture_type(handlers[3], "CAPE")
    /\ result.value = TRUE

\* ---------------------------------------------------- the storage backends

\* config.rs: enum StorageType { Local, S3 }
Backends == {"Local", "S3"}

\* Result<Vec<u8>> / Result<String>: Ok(v).
Ok(v) == [tag |-> "Ok", value |-> v]

\* The digests of the payloads: what upload_texture passes as hash.
Digests == {calculate_hash(b) : b \in Payloads}

\* The extension store_file is called with (handlers.rs 202 and 451):
\* texture_type.file_extension().
StoreExtensions == {file_extension(t) : t \in TextureType}

\* The extensions get_file is called with: file_extension() and "png" by the
\* StorageRetriever, ".png" by serve_texture_file.
GetExtensions == StoreExtensions \cup {"png", ".png"}

\* The hashes get_file is asked for: the digests, and one that names no
\* upload.
GetHashes == Digests \cup {default_steve_hash}

\* format!("{}.{}", hash, extension): the text after the hash.
DotExtension(extension) ==
    CASE extension = "png" -> ".png"
      [] extension = ".png" -> "..png"

\* An object's key: the hash and the text that follows it.
Key(hash, suffix) == [hash |-> hash, suffix |-> suffix]

\* The keys a backend can be asked for: file names under storage_path, object
\* keys in the bucket.
Keys(backend) ==
    IF backend = "Local" THEN {Key(h, "") : h \in GetHashes}
    ELSE {Key(h, DotExtension(x)) : h \in GetHashes, x \in {"png", ".png"}}

\* A file or object, or its absence.
File(bytes) == [exists |-> TRUE, bytes |-> bytes]

Absent == [exists |-> FALSE, bytes |-> <<>>]

\* The backends with nothing stored.
NoObjects == [b \in Backends |-> [k \in Keys(b) |-> Absent]]

\* Where store_file writes: local.rs 31-32 `format!("{}", hash)` joined to
\* storage_path; s3.rs 96 get_file_path = `format!("{}.{}", hash, extension)`.
StoreKey(backend, hash, extension) ==
    IF backend = "Local" THEN Key(hash, "")
    ELSE Key(hash, DotExtension(extension))

\* Mutant: the object store's read path always asks for the dotted extension
\* serve_texture_file passes.
GetKey_Dotted(backend, hash, extension) ==
    IF backend = "Local" THEN Key(hash, "")
    ELSE Key(hash, DotExtension(".png"))

\* Where get_file reads: local.rs 40-41, s3.rs 120.
GetKey(backend, hash, extension) ==
    IF backend = "Local" THEN Key(hash, "")
    ELSE Key(hash, DotExtension(extension))

\* generate_url: local.rs 48-54 `{base_url}/{hash}`; s3.rs 139-142
\* generate_s3_url(get_file_path(hash, extension)).
generate_url(backend, hash, extension) ==
    IF backend = "Local" THEN Url("BASE_URL/", hash, "")
    ELSE Url("S3_ENDPOINT/", hash, DotExtension(extension))

\* The error of a failed store_file or get_file: an anyhow::Error. The trait
\* (backend.rs 8 and 11) returns anyhow's Result, whose error has no kind:
\* what went wrong is in its text only. local.rs 43-45 formats the io::Error
\* into "Failed to read file {path}: {e}"; s3.rs 95-107 and 121-127 pass on
\* the error of get_client and of the request.
StorageError(backend, op, cause) ==
    Err([context |-> IF backend = "Local" /\ op = "get_file"
                     THEN "Failed to read file" ELSE "",
         cause |-> cause])

\* How a store_file call can go wrong, by the environment's choice:
\* "unreachable" fails before anything is written (create_dir_all or opening
\* the file fails, get_client or the PUT fails); "interrupted" fails while
\* tokio::fs::write is writing the file it has created or truncated, which an
\* object store's PUT, being all or nothing, cannot do.
StoreFaults(backend) ==
    IF backend = "Local" THEN {"none", "unreachable", "interrupted"}
    ELSE {"none", "unreachable"}

\* What an interrupted write leaves of the bytes: here, nothing.
Truncated(bytes) == SubSeq(bytes, 1, 0)

\* store_file on one backend: the objects after it and its result.
store_file(backend, objs, bytes, hash, extension, fault) ==
    IF fault = "none"
    THEN [objects |-> [objs EXCEPT ![StoreKey(backend, hash, extension)] = File(bytes)],
          outcome |-> Ok(generate_url(backend, hash, extension))]
    ELSE IF fault = "interrupted"
    THEN [objects |-> [objs EXCEPT ![StoreKey(backend, hash, extension)] =
                          File(Truncated(bytes))],
          outcome |-> StorageError(backend, "store_file", "interrupted")]
    ELSE [objects |-> objs,
          outcome |-> StorageError(backend, "store_file", "unreachable")]

\* get_file on one backend.
get_file(backend, objs, hash, extension, unreachable) ==
    IF unreachable THEN StorageError(backend, "get_file", "unreachable")
    ELSE IF ~objs[GetKey(backend, hash, extension)].exists
    THEN StorageError(backend, "get_file", "no such file or key")
    ELSE Ok(objs[GetKey(backend, hash, extension)].bytes)

\* handlers.rs 292-306 serve_texture_file: what it answers for a get_file
\* outcome.
serve_texture_file_response(outcome) ==
    IF outcome.tag = "Ok"
    THEN [status |-> "200 OK", body |-> outcome.value]
    ELSE [status |-> "500 INTERNAL_SERVER_ERROR", body |-> "Failed to get file"]

Unknown == [known |-> FALSE, bytes |-> <<>>]

Known(bytes) == [known |-> TRUE, bytes |-> bytes]

\* The same store_file(bytes, calculate_hash(bytes), extension) call on both
\* backends.
StoreFile(bytes, extension, fault) ==
    LET hash == calculate_hash(bytes)
        unreachable == [b \in Backends |-> fault[b] # "none"]
        done == [b \in Backends |->
                    store_file(b, objects[b], bytes, hash, extension, fault[b])]
    IN  /\ objects' = [b \in Backends |-> done[b].objects]
        /\ lastCall' = [op |-> "store_file", bytes |-> bytes, hash |-> hash,
                        extension |-> extension, unreachable |-> unreachable,
                        before |-> objects,
                        had |-> [b \in Backends |-> stored[b][<<hash, extension>>]],
                        outcome |-> [b \in Backends |-> done[b].outcome]]
        /\ stored' = [b \in Backends |->
                        [stored[b] EXCEPT ![<<hash, extension>>] =
                            IF done[b].outcome.tag = "Ok" THEN Known(bytes)
                            ELSE Unknown]]
        /\ storedHashes' = storedHashes \cup {hash}
        /\ faulted' = (faulted \/ \E b \in Backends : unreachable[b])
        /\ UNCHANGED <<chainVars, serviceVars, bootVars, taskVars>>

\* The same get_file(hash, extension) call on both backends.
GetFile(hash, extension, unreachable) ==
    /\ lastCall' = [op |-> "get_file", bytes |-> <<>>, hash |-> hash,
                    extension |-> extension, unreachable |-> unreachable,
                    before |-> objects,
                    had |-> [b \in Backends |-> stored[b][<<hash, extension>>]],
                    outcome |-> [b \in Backends |->
                        get_file(b, objects[b], hash, extension, unreachable[b])]]
    /\ faulted' = (faulted \/ \E b \in Backends : unreachable[b])
    /\ UNCHANGED <<objects, stored, storedHashes>>
    /\ UNCHANGED <<chainVars, serviceVars, bootVars, taskVars>>

NoCall ==
    [op |-> "none", bytes |-> <<>>, hash |-> default_steve_hash, extension |-> "png",
     unreachable |-> [b \in Backends |-> FALSE],
     before |-> NoObjects,
     had |-> [b \in Backends |-> Unknown],
     outcome |-> [b \in Backends |-> Ok(<<>>)]]

StorageInit ==
    /\ objects = NoObjects
    /\ lastCall = NoCall
    /\ stored = [b \in Backends |->
                    [p \in GetHashes \X GetExtensions |-> Unknown]]
    /\ storedHashes = {}
    /\ faulted = FALSE

StorageNext ==
    \/ \E bytes \in Payloads : \E x \in StoreExtensions :
          \E fl \in StoreFaults("Local") : \E fs \in StoreFaults("S3") :
              StoreFile(bytes, x, [b \in Backends |-> IF b = "Local" THEN fl ELSE fs])
    \/ \E h \in GetHashes : \E x \in GetExtensions :
          \E u \in [Backends -> BOOLEAN] : GetFile(h, x, u)

\* The chain is not part of SpecStorage.
ChainUnused ==
    /\ handlers = <<>>
    /\ pc = "idle"
    /\ request = Request("none", "-", "-")
    /\ index = 1
    /\ inflight = {}
    /\ invoked = <<>>
    /\ result = NoResult

\* The process and its retriever are not part of SpecChain, SpecStorage and
\* Spec: their service is taken as started.
BootUnused ==
    /\ boot = [pc |-> "serving", config |-> "-", storage |-> FALSE]
    /\ retriever = [kind |-> "single", members |-> <<Member("Storage")>>]

\* No name has been mapped, and requests are served one at a time.
TasksUnused ==
    /\ username_mappings = {}
    /\ tasks = <<>>

\* ------------------------------------------- uploads and the StorageRetriever

\* handlers.rs 22: const MAX_FILE_SIZE: usize = 1024 * 1024.
MAX_FILE_SIZE == 1024 * 1024

\* handlers.rs 309-311: data.len() >= 8 && data[0..8] == PNG_SIGNATURE.
is_png(data) ==
    /\ Len(data) >= 8
    /\ SubSeq(data, 1, 8) = PNG_SIGNATURE

\* A file field that is no PNG, and a request without a file field.
NotPng == <<1, 2, 3>>

NoFile == <<>>

UploadFiles == Payloads \cup {NotPng, NoFile}

\* handlers.rs 194: a request without an options field is modelSlim: false;
\* the requests of Spec carry none.
UploadOptions == {FALSE}

\* The metadata column: JSON, or NULL.
JsonSlim == "{model: slim}"

SqlNull == "NULL"

\* TextureMetadata { model: Some("slim") }.
SlimMetadata == "slim"

\* handlers.rs 213-217: Some(json!({"model": "slim"})) when options.modelSlim.
UploadMetadata(modelSlim) == IF modelSlim THEN JsonSlim ELSE SqlNull

\* handlers.rs 246-252: the metadata of the upload's response.
ResponseMetadata(modelSlim) == IF modelSlim THEN SlimMetadata ELSE NoMetadata

\* storage_retriever.rs 44-46: metadata.and_then(|v| from_value(v).ok()).
ParseMetadata(column) == IF column = JsonSlim THEN SlimMetadata ELSE NoMetadata

\* A row of the textures table, and the absence of one.
Row(file_hash, file_url, metadata) ==
    [present |-> TRUE, file_hash |-> file_hash, file_url |-> file_url,
     metadata |-> metadata]

NoRow ==
    [present |-> FALSE, file_hash |-> calculate_hash(<<>>),
     file_url |-> Url("", calculate_hash(<<>>), ""), metadata |-> SqlNull]

\* An HTTP response: status and body.
Response(status, body) == [status |-> status, body |-> body]

\* The request being handled. clean: the database and the storage backend
\* answered every call the handler made for it; db_fails, unreachable: which of
\* the two did not. before: the textures row of (user, texture_type) when an
\* upload was received.
Http(handler, p, user, texture_type, file, modelSlim, hash, file_url, response) ==
    [handler |-> handler, pc |-> p, user |-> user, texture_type |-> texture_type,
     file |-> file, modelSlim |-> modelSlim, hash |-> hash, file_url |-> file_url,
     clean |-> TRUE, db_fails |-> FALSE, unreachable |-> FALSE, before |-> NoRow,
     response |-> response]

Idle ==
    Http("none", "idle", "-", "-", <<>>, FALSE, calculate_hash(<<>>),
         Url("", calculate_hash(<<>>), ""), Response("-", "-"))

\* Mutant: the upload hashes the bytes that follow the PNG signature.
UploadHash_SkipsSignature(file_bytes) ==
    calculate_hash(SubSeq(file_bytes, 9, Len(file_bytes)))

\* handlers.rs 197: state.storage.calculate_hash(&file_bytes).
UploadHash(file_bytes) == calculate_hash(file_bytes)

\* handlers.rs 119-195: upload_texture up to the validated file. The size and
\* signature checks run as the file field is read, "No file provided" after
\* the fields are exhausted.
UploadReceive(user, texture_type, file, modelSlim) ==
    /\ http.pc = "idle"
    /\ http' =
         [(IF file # NoFile /\ Len(file) > MAX_FILE_SIZE
           THEN Http("upload_texture", "respond", user, texture_type, file, modelSlim,
                     Idle.hash, Idle.file_url,
                     Response("400 BAD_REQUEST", "File size exceeds maximum allowed size"))
           ELSE IF file # NoFile /\ ~is_png(file)
           THEN Http("upload_texture", "respond", user, texture_type, file, modelSlim,
                     Idle.hash, Idle.file_url,
                     Response("400 BAD_REQUEST", "File must be a PNG image"))
           ELSE IF file = NoFile
           THEN Http("upload_texture", "respond", user, texture_type, file, modelSlim,
                     Idle.hash, Idle.file_url,
                     Response("400 BAD_REQUEST", "No file provided"))
           ELSE Http("upload_texture", "store", user, texture_type, file, modelSlim,
                     UploadHash(file), Idle.file_url, Response("-", "-")))
            EXCEPT !.before = textures[<<user, texture_type>>]]
    /\ UNCHANGED <<storage_type, textures, uploaded>>
    /\ UNCHANGED <<chainVars, storageVars, bootVars, taskVars>>

\* handlers.rs 199-210: store_file(file_bytes, &hash, file_extension());
\* an error answers 500.
UploadStore(fault) ==
    /\ http.pc = "store"
    /\ LET extension == file_extension(http.texture_type)
           done == store_file(storage_type, objects[storage_type], http.file,
                              http.hash, extension, fault)
       IN  /\ objects' = [objects EXCEPT ![storage_type] = done.objects]
           /\ stored' = [stored EXCEPT ![storage_type][<<http.hash, extension>>] =
                            IF done.outcome.tag = "Ok" THEN Known(http.file)
                            ELSE Unknown]
           /\ http' =
                IF done.outcome.tag = "Ok"
                THEN [http EXCEPT !.pc = "upsert", !.file_url = done.outcome.value]
                ELSE [http EXCEPT !.pc = "respond",
                        !.response = Response("500 INTERNAL_SERVER_ERROR",
                                              "Failed to store file")]
    /\ UNCHANGED <<storage_type, textures, uploaded>>
    /\ UNCHANGED <<lastCall, storedHashes, faulted>>
    /\ UNCHANGED <<chainVars, bootVars, taskVars>>

\* Mutant: the row is written although the statement reports an error.
UploadUpsert_WritesOnError(db_fails) ==
    /\ http.pc = "upsert"
    /\ textures' = [textures EXCEPT ![<<http.user, http.texture_type>>] =
                      Row(http.hash, http.file_url, UploadMetadata(http.modelSlim))]
    /\ http' = [http EXCEPT !.pc = "respond",
                  !.response =
                     IF db_fails
                     THEN Response("500 INTERNAL_SERVER_ERROR", "Failed to save texture")
                     ELSE Response("200 OK",
                              [url |-> http.file_url, digest |-> http.hash,
                               metadata |-> ResponseMetadata(http.modelSlim)])]
    /\ uploaded' = IF db_fails THEN uploaded
                   ELSE [uploaded EXCEPT ![<<http.user, http.texture_type>>] =
                           [known |-> TRUE, bytes |-> http.file,
                            url |-> http.file_url]]
    /\ UNCHANGED storage_type
    /\ UNCHANGED <<chainVars, storageVars, bootVars, taskVars>>

\* handlers.rs 219-253 (upload_texture) and 469-490 (admin_upload_texture):
\* INSERT ... ON CONFLICT (user_uuid, texture_type) DO UPDATE, then the 200
\* response; a database error answers 500.
UploadUpsert(db_fails) ==
    /\ http.pc = "upsert"
    /\ IF db_fails
       THEN /\ http' = [http EXCEPT !.pc = "respond",
                          !.response = Response("500 INTERNAL_SERVER_ERROR",
                                                "Failed to save texture")]
            /\ UNCHANGED <<textures, uploaded>>
       ELSE /\ textures' = [textures EXCEPT ![<<http.user, http.texture_type>>] =
                              Row(http.hash, http.file_url,
                                  UploadMetadata(http.modelSlim))]
            /\ http' = [http EXCEPT !.pc = "respond",
                          !.response = Response("200 OK",
                              [url |-> http.file_url, digest |-> http.hash,
                               metadata |-> ResponseMetadata(http.modelSlim)])]
            /\ uploaded' = [uploaded EXCEPT ![<<http.user, http.texture_type>>] =
                              [known |-> TRUE, bytes |-> http.file,
                               url |-> http.file_url]]
    /\ UNCHANGED storage_type
    /\ UNCHANGED <<chainVars, storageVars, bootVars, taskVars>>

\* storage_retriever.rs 25-56: get_texture.
StorageRetriever_get_texture(rows, user, texture_type, db_fails) ==
    IF db_fails THEN Err("database error")
    ELSE IF rows[<<user, texture_type>>].present
    THEN OkSome(RetrievedTexture(rows[<<user, texture_type>>].file_url,
                                 rows[<<user, texture_type>>].file_hash,
                                 ParseMetadata(rows[<<user, texture_type>>].metadata)))
    ELSE OkNone

\* storage_retriever.rs 58-95: get_texture_bytes; the query's and get_file's
\* errors are passed on by `?`.
StorageRetriever_get_texture_bytes(rows, backend, objs, user, texture_type, db_fails, unreachable) ==
    IF db_fails THEN Err("database error")
    ELSE IF ~rows[<<user, texture_type>>].present THEN OkNone
    ELSE LET row == rows[<<user, texture_type>>]
             got == get_file(backend, objs, row.file_hash,
                             file_extension(texture_type), unreachable)
         IN  IF got.tag = "Err" THEN got
             ELSE OkSome(RetrievedTextureBytes(row.file_hash, got.value,
                                               ParseMetadata(row.metadata)))

\* storage_retriever.rs 99: self.storage.get_file(hash, "png").
ByHashExtension == "png"

\* storage_retriever.rs 102-112: SELECT metadata ... WHERE file_hash = $1
\* LIMIT 1: the metadata of any one row with that hash, or no row.
ByHashMetadata(rows, hash) ==
    IF \E k \in DOMAIN rows : rows[k].present /\ rows[k].file_hash = hash
    THEN {ParseMetadata(rows[k].metadata) :
            k \in {j \in DOMAIN rows : rows[j].present /\ rows[j].file_hash = hash}}
    ELSE {NoMetadata}

\* storage_retriever.rs 97-126: get_texture_bytes_by_hash: the results it can
\* give. Every get_file error is None; the metadata query's error is passed on.
StorageRetriever_get_texture_bytes_by_hash(rows, backend, objs, hash, db_fails, unreachable) ==
    LET got == get_file(backend, objs, hash, ByHashExtension, unreachable)
    IN  IF got.tag = "Err" THEN {OkNone}
        ELSE IF db_fails THEN {Err("database error")}
        ELSE {OkSome(RetrievedTextureBytes(hash, got.value, m)) :
                m \in ByHashMetadata(rows, hash)}

\* A request answered in one step by the StorageRetriever or by
\* serve_texture_file.
Answer(handler, user, texture_type, hash, db_fails, unreachable, response) ==
    /\ http.pc = "idle"
    /\ http' = [Http(handler, "respond", user, texture_type, <<>>, FALSE, hash,
                     Idle.file_url, response)
                  EXCEPT !.clean = (~db_fails /\ ~unreachable),
                         !.db_fails = db_fails, !.unreachable = unreachable]
    /\ UNCHANGED <<storage_type, textures, uploaded>>
    /\ UNCHANGED <<chainVars, storageVars, bootVars, taskVars>>

GetTexture(user, texture_type, db_fails) ==
    Answer("get_texture", user, texture_type, Idle.hash, db_fails, FALSE,
           StorageRetriever_get_texture(textures, user, texture_type, db_fails))

GetTextureBytes(user, texture_type, db_fails, unreachable) ==
    Answer("get_texture_bytes", user, texture_type, Idle.hash, db_fails, unreachable,
           StorageRetriever_get_texture_bytes(textures, storage_type,
               objects[storage_type], user, texture_type, db_fails, unreachable))

GetTextureBytesByHash(hash, db_fails, unreachable) ==
    \E r \in StorageRetriever_get_texture_bytes_by_hash(textures, storage_type,
                objects[storage_type], hash, db_fails, unreachable) :
        Answer("get_texture_bytes_by_hash", "-", "-", hash, db_fails, unreachable, r)

\* handlers.rs 292-306: serve_texture_file: get_file(&hash, ".png").
ServeTextureFile(hash, unreachable) ==
    Answer("serve_texture_file", "-", "-", hash, FALSE, unreachable,
           serve_texture_file_response(
               get_file(storage_type, objects[storage_type], hash, ".png",
                        unreachable)))

\* The response is sent; the next request is taken.
Respond ==
    /\ http.pc = "respond"
    /\ http' = Idle
    /\ UNCHANGED <<storage_type, textures, uploaded>>
    /\ UNCHANGED <<chainVars, storageVars, bootVars, taskVars>>

NotUploaded == [known |-> FALSE, bytes |-> <<>>, url |-> Idle.file_url]

\* main.rs: the storage create_storage builds for config.storage_type, an
\* empty table, no request.
ServiceInit ==
    /\ storage_type \in Backends
    /\ textures = [k \in Users \X TextureType |-> NoRow]
    /\ http = Idle
    /\ uploaded = [k \in Users \X TextureType |-> NotUploaded]

\* The service is not part of SpecChain and SpecStorage.
ServiceUnused ==
    /\ storage_type = "Local"
    /\ textures = [k \in Users \X TextureType |-> NoRow]
    /\ http = Idle
    /\ uploaded = [k \in Users \X TextureType |-> NotUploaded]

Next ==
    \/ \E u \in Users : \E t \in TextureType : \E f \in UploadFiles :
          \E m \in UploadOptions : UploadReceive(u, t, f, m)
    \/ \E f \in StoreFaults(storage_type) : UploadStore(f)
    \/ \E x \in BOOLEAN : UploadUpsert(x)
    \/ \E u \in Users : \E t \in TextureType : \E x \in BOOLEAN : GetTexture(u, t, x)
    \/ \E u \in Users : \E t \in TextureType : \E x, y \in BOOLEAN :
          GetTextureBytes(u, t, x, y)
    \/ \E h \in GetHashes : \E x, y \in BOOLEAN : GetTextureBytesByHash(h, x, y)
    \/ \E h \in GetHashes : \E y \in BOOLEAN : ServeTextureFile(h, y)
    \/ Respond

\* ChainRetriever::new over any member list; no storage call, no request.
InitChain == ChainInit /\ StorageInit /\ ServiceUnused /\ BootUnused /\ TasksUnused

SpecChain == InitChain /\ [][ChainNext]_vars

\* Two empty backends, one of each kind.
InitStorage == ChainUnused /\ StorageInit /\ ServiceUnused /\ BootUnused /\ TasksUnused

SpecStorage == InitStorage /\ [][StorageNext]_vars

\* The service after main built its state: empty storage, empty table.
Init == ChainUnused /\ StorageInit /\ ServiceInit /\ BootUnused /\ TasksUnused

Spec == Init /\ [][Next]_vars

\* ------------------------------------------------- claims on the backends

\* The StoreFile or GetFile call just made, on backend b.
CalledGetFile == lastCall.op = "get_file"

CalledStoreFile == lastCall.op = "store_file"

\* C7: on either backend, once StoreFile(B, d, ext) has succeeded and no later
\* StoreFile was made for d and ext, a GetFile(d, ext) that reaches the backend
\* returns exactly B; and a StoreFile of the same B under the same d and ext
\* leaves the stored objects as they were.
C7_StoreThenGet ==
    \A b \in Backends :
        /\ (/\ CalledGetFile
            /\ lastCall.had[b].known
            /\ ~lastCall.unreachable[b])
              => lastCall.outcome[b] = Ok(lastCall.had[b].bytes)
        /\ (/\ CalledStoreFile
            /\ lastCall.had[b] = Known(lastCall.bytes)
            /\ lastCall.outcome[b].tag = "Ok")
              => /\ objects[b] = lastCall.before[b]
                 /\ get_file(b, objects[b], lastCall.hash, lastCall.extension, FALSE)
                      = Ok(lastCall.bytes)

\* Both backends hold B under (d, "png") and GetFile(d, "png") gave B on both.
C7_Witness ==
    /\ CalledGetFile
    /\ \A b \in Backends :
          /\ lastCall.had[b].known
          /\ lastCall.hash = calculate_hash(lastCall.had[b].bytes)
          /\ ~lastCall.unreachable[b]
          /\ lastCall.outcome[b] = Ok(lastCall.had[b].bytes)

\* Two GetFile outcomes agree: the same bytes, or a failure on both.
SameOutcome(a, b) ==
    /\ a.tag = b.tag
    /\ a.tag = "Ok" => a.value = b.value

\* C8: with the same StoreFile and GetFile calls made on both backends, and
\* both backends reachable throughout, every GetFile gives the same outcome
\* on the local file system and on the object store.
C8_Substitutable ==
    (CalledGetFile /\ ~faulted)
        => SameOutcome(lastCall.outcome["Local"], lastCall.outcome["S3"])

\* What the code that called get_file(hash, extension) gives its own caller:
\* serve_texture_file (extension ".png") its response, the StorageRetriever's
\* by-hash read (extension "png") its results.
CallerOutcome(backend, objs, hash, extension, unreachable) ==
    IF extension = ".png"
    THEN {serve_texture_file_response(
              get_file(backend, objs, hash, extension, unreachable))}
    ELSE StorageRetriever_get_texture_bytes_by_hash(
              textures, backend, objs, hash, FALSE, unreachable)

\* C9: a GetFile for a hash nothing was stored under fails, returns no bytes
\* and leaves the stored objects alone, and its caller can tell that outcome
\* from the one it gets when the backend cannot be reached.
C9_NotFoundDistinct ==
    \A b \in Backends :
        (/\ CalledGetFile
         /\ lastCall.hash \notin storedHashes
         /\ ~lastCall.unreachable[b])
           => /\ lastCall.outcome[b].tag = "Err"
              /\ objects = lastCall.before
              /\ CallerOutcome(b, objects[b], lastCall.hash, lastCall.extension, FALSE)
                   # CallerOutcome(b, objects[b], lastCall.hash, lastCall.extension, TRUE)

\* -------------------------------------------------- claims on the service

Answered(handler) == http.pc = "respond" /\ http.handler = handler

HeldObject == objects[storage_type][GetKey(storage_type, http.hash, ByHashExtension)]

\* C11: get_texture_bytes_by_hash(d) on the StorageRetriever returns the bytes
\* the reachable backend holds under d, whether or not a textures row names d;
\* a missing row or a failing metadata query only leaves the metadata absent.
C11_ByHashBestEffortMetadata ==
    (/\ Answered("get_texture_bytes_by_hash")
     /\ ~http.unreachable
     /\ HeldObject.exists)
      => /\ http.response.tag = "Some"
         /\ http.response.value.bytes = HeldObject.bytes
         /\ (http.db_fails \/ ByHashMetadata(textures, http.hash) = {NoMetadata})
               => http.response.value.metadata = NoMetadata

\* The database or the storage backend did not answer a call the operation
\* made: get_texture queries the table; get_texture_bytes queries it and reads
\* the file of the row it found; get_texture_bytes_by_hash reads the file and
\* queries the table once it has the bytes.
ConsultFailed ==
    \/ Answered("get_texture") /\ http.db_fails
    \/ /\ Answered("get_texture_bytes")
       /\ \/ http.db_fails
          \/ textures[<<http.user, http.texture_type>>].present /\ http.unreachable
    \/ /\ Answered("get_texture_bytes_by_hash")
       /\ \/ http.unreachable
          \/ HeldObject.exists /\ http.db_fails

StorageRetrieverAnswered ==
    \/ Answered("get_texture")
    \/ Answered("get_texture_bytes")
    \/ Answered("get_texture_bytes_by_hash")

\* C12: a StorageRetriever operation returns an error whenever the database
\* or the storage backend it consulted did not answer, and returns None only
\* when every call it made was answered.
C12_EmptyVersusError ==
    StorageRetrieverAnswered =>
        /\ ConsultFailed => http.response.tag = "Err"
        /\ http.response.tag = "None" => ~ConsultFailed

\* ------------------------------------------------- claims on the upload

\* The upload being answered failed in store_file or in the upsert.
UploadFailed ==
    /\ Answered("upload_texture")
    /\ http.response.status = "500 INTERNAL_SERVER_ERROR"

\* C20: an upload whose store_file fails or whose upsert fails answers an
\* error, and the textures row of (user, kind) is the row it was when the
\* upload was received.
C20_FailedUploadKeepsRecord ==
    /\ (Answered("upload_texture") /\ http.file # NoFile /\ is_png(http.file)
        /\ Len(http.file) <= MAX_FILE_SIZE)
          => http.response.status \in {"200 OK", "500 INTERNAL_SERVER_ERROR"}
    /\ UploadFailed => textures[<<http.user, http.texture_type>>] = http.before
    /\ (Answered("upload_texture") /\ http.response.status = "200 OK")
          => textures[<<http.user, http.texture_type>>].file_hash = http.hash

\* An upload of new bytes for a (user, kind) that already has a row, failing in
\* the upsert after its file was stored.
C20_Witness ==
    /\ UploadFailed
    /\ http.before.present
    /\ http.before.file_hash # http.hash
    /\ http.response.body = "Failed to save texture"

\* --------------------------------------------- claims on content addressing

\* C17: after any sequence of uploads every object the backend holds under the
\* key of a hash d has calculate_hash(bytes) = d, so every RetrievedTextureBytes
\* the StorageRetriever returns, by user or by hash, and the one the
\* EmbeddedDefaultSkinRetriever returns, has hash = calculate_hash(bytes).
C17_DigestMatchesBytes ==
    /\ \A k \in Keys(storage_type) :
          objects[storage_type][k].exists
            => calculate_hash(objects[storage_type][k].bytes) = k.hash
    /\ ((Answered("get_texture_bytes") \/ Answered("get_texture_bytes_by_hash"))
        /\ http.response.tag = "Some")
          => http.response.value.hash = calculate_hash(http.response.value.bytes)
    /\ default_skin_hash = calculate_hash(default_skin_data)

\* ------------------------------------------- the retrievers and the network

\* What an HTTP GET of reqwest comes to: send() fails (sent = FALSE), or a
\* response arrives with a status (success = status.is_success()) and a body
\* that can be read to the end or not.
TextureResponse(sent, success, readable, body) ==
    [sent |-> sent, success |-> success, readable |-> readable, body |-> body]

\* The body of a response whose status is not a success: an error page.
ErrorPage == <<60, 33>>

\* The responses of a texture host (textures.minecraft.net): no response; a
\* 200 with some image (a payload or the Steve skin), or whose body breaks
\* off; a 404 or 5xx with an error page.
TextureResponses ==
    {TextureResponse(FALSE, FALSE, FALSE, <<>>),
     TextureResponse(TRUE, TRUE, FALSE, <<>>),
     TextureResponse(TRUE, FALSE, TRUE, ErrorPage)}
        \cup {TextureResponse(TRUE, TRUE, TRUE, b) : b \in Payloads \cup {SteveImage}}

\* retrieval/backend.rs 8-25: download_file_from_url.
download_file_from_url(response) ==
    IF ~response.sent THEN Err("error sending request")
    ELSE IF ~response.success THEN OkNone
    ELSE IF ~response.readable THEN Err("error decoding response body")
    ELSE OkSome(response.body)

\* mojang.rs 44-49 TextureData { url, metadata }, or no entry for the kind.
TextureData(url, metadata) == [present |-> TRUE, url |-> url, metadata |-> metadata]

NoTextureData == [present |-> FALSE, url |-> Url("", calculate_hash(<<>>), ""), metadata |-> NoMetadata]

\* The URL a textures payload gives for an image: the host path, the hash, and
\* possibly an extension or a query after it.
MojangTextureUrl(hash, suffix) == Url("http://textures.minecraft.net/texture/", hash, suffix)

\* mojang.rs 51-66: extract_hash_from_url: the last path segment without
\* query and extension.
extract_hash_from_url(url) == url.hash

\* The body of a session-server response. decodes: it is the JSON of a
\* ProfileResponse (mojang.rs 25-30). property: the "textures" property is
\* missing, is not base64, is base64 of something that is not a
\* TexturesPayload, or is a payload; textures: the payload's map.
ProfileBody(decodes, property, entries) ==
    [decodes |-> decodes, property |-> property, textures |-> entries]

NoTextures == [t \in TextureType |-> NoTextureData]

SkinEntries ==
    {NoTextureData}
        \cup {TextureData(MojangTextureUrl(d, ""), m) :
                d \in Digests, m \in {NoMetadata, SlimMetadata}}

CapeEntries ==
    {NoTextureData} \cup {TextureData(MojangTextureUrl(d, ".png"), NoMetadata) : d \in Digests}

ProfileBodies ==
    {ProfileBody(FALSE, "missing", NoTextures),
     ProfileBody(TRUE, "missing", NoTextures),
     ProfileBody(TRUE, "bad_base64", NoTextures),
     ProfileBody(TRUE, "bad_json", NoTextures)}
        \cup {ProfileBody(TRUE, "payload", [t \in TextureType |->
                                              IF t = "SKIN" THEN s ELSE c]) :
                s \in SkinEntries, c \in CapeEntries}

ProfileResponse(sent, success, body) == [sent |-> sent, success |-> success, body |-> body]

\* The responses of the session server: no response; a non-success status
\* with a body that is no profile; a 200 with any of the bodies.
ProfileResponses ==
    {ProfileResponse(FALSE, FALSE, ProfileBody(FALSE, "missing", NoTextures)),
     ProfileResponse(TRUE, FALSE, ProfileBody(FALSE, "missing", NoTextures))}
        \cup {ProfileResponse(TRUE, TRUE, b) : b \in ProfileBodies}

\* mojang.rs 122-140: fetch_profile.
fetch_profile(response) ==
    IF ~response.sent THEN Err("Failed to fetch profile from Mojang")
    ELSE IF ~response.success THEN Err("Mojang API returned error")
    ELSE IF ~response.body.decodes THEN Err("Failed to parse profile response")
    ELSE Ok(response.body)

\* mojang.rs 143-153: decode_textures_payload of the property's value.
decode_textures_payload(profile) ==
    IF profile.property = "bad_base64" THEN Err("Failed to decode base64")
    ELSE IF profile.property = "bad_json" THEN Err("Failed to parse textures payload")
    ELSE Ok(profile.textures)

\* mojang.rs 155-184: get_textures_from_mojang: the map from kind to
\* RetrievedTexture, an absent kind being None.
get_textures_from_mojang(response) ==
    LET profile == fetch_profile(response)
    IN  IF profile.tag = "Err" THEN profile
        ELSE IF profile.value.property = "missing"
        THEN Err("Profile does not have textures property")
        ELSE LET payload == decode_textures_payload(profile.value)
             IN  IF payload.tag = "Err" THEN payload
                 ELSE Ok([t \in TextureType |->
                            IF payload.value[t].present
                            THEN OkSome(RetrievedTexture(payload.value[t].url,
                                     extract_hash_from_url(payload.value[t].url),
                                     payload.value[t].metadata))
                            ELSE OkNone])

\* mojang.rs 186-206: get_texture_from_mojang: textures.remove(key).
get_texture_from_mojang(response, texture_type) ==
    LET textures_map == get_textures_from_mojang(response)
    IN  IF textures_map.tag = "Err" THEN textures_map
        ELSE textures_map.value[texture_type]

\* mojang.rs 208-230: get_texture_bytes_from_mojang: send and bytes, each
\* with `?`; the status of the response is not looked at.
get_texture_bytes_from_mojang(texture, response) ==
    IF ~response.sent THEN Err("Failed to download texture")
    ELSE IF ~response.readable THEN Err("Failed to read texture bytes")
    ELSE Ok(RetrievedTextureBytes(texture.hash, response.body, texture.metadata))

\* One network call of a retriever operation: whom it went to, how the
\* response came out, whether its payload was what the caller decodes it as,
\* and the body's bytes when they are texture bytes.
Exchange(to, sent, success, wellformed, body) ==
    [to |-> to, sent |-> sent, success |-> success, wellformed |-> wellformed,
     body |-> body]

ProfileExchange(response) ==
    Exchange("profile", response.sent, response.success,
             response.body.decodes /\ response.body.property = "payload", <<>>)

TextureExchange(response) ==
    Exchange("texture", response.sent, response.success, response.readable,
             response.body)

\* One run of a retriever operation: its result and the network calls it made.
Run(outcome, net) == [result |-> outcome, net |-> net]

\* A request to a retriever. env: how the database, the storage backend, the
\* session server and the texture host answer while it is served.
UserRequest(op, user, texture_type, hash) ==
    [op |-> op, user |-> user, texture_type |-> texture_type, hash |-> hash]

Env(db_fails, unreachable, profile, texture) ==
    [db_fails |-> db_fails, unreachable |-> unreachable, profile |-> profile,
     texture |-> texture]

Envs ==
    {Env(x, y, p, t) : x, y \in BOOLEAN, p \in ProfileResponses, t \in TextureResponses}

\* mojang.rs 281-296: get_texture_bytes: the texture, then its download.
MojangRetriever_get_texture_bytes(env, texture_type) ==
    LET texture == get_texture_from_mojang(env.profile, texture_type)
    IN  IF texture.tag # "Some" THEN Run(texture, <<ProfileExchange(env.profile)>>)
        ELSE LET got == get_texture_bytes_from_mojang(texture.value, env.texture)
             IN  Run(IF got.tag = "Err" THEN got ELSE OkSome(got.value),
                     <<ProfileExchange(env.profile), TextureExchange(env.texture)>>)

\* mojang.rs 298-310: get_texture_bytes_by_hash.
MojangRetriever_get_texture_bytes_by_hash(env, hash) ==
    LET got == download_file_from_url(env.texture)
    IN  Run(IF got.tag = "Some"
            THEN OkSome(RetrievedTextureBytes(hash, got.value, NoMetadata))
            ELSE got,
            <<TextureExchange(env.texture)>>)

\* impl TextureRetriever for MojangRetriever (mojang.rs 233-340). The
\* texture of one kind is get_texture_from_mojang of the user's profile.
MojangRuns(req, env) ==
    CASE req.op = "get_texture" ->
            {Run(get_texture_from_mojang(env.profile, req.texture_type),
                 <<ProfileExchange(env.profile)>>)}
      [] req.op = "get_texture_bytes" ->
            {MojangRetriever_get_texture_bytes(env, req.texture_type)}
      [] req.op = "get_texture_bytes_by_hash" ->
            {MojangRetriever_get_texture_bytes_by_hash(env, req.hash)}

\* Mutant: the default skin is the answer for every kind.
DefaultSkinRuns_AnyKind(req, env) ==
    {Run(IF req.op = "get_texture"
         THEN OkSome(RetrievedTexture(default_steve_url, default_steve_hash, NoMetadata))
         ELSE OkNone, <<>>)}

\* impl TextureRetriever for DefaultSkinRetriever (default_skin.rs 49-117).
DefaultSkinRuns(req, env) ==
    CASE req.op = "get_texture" ->
            {Run(IF req.texture_type = "SKIN"
                 THEN OkSome(RetrievedTexture(default_steve_url, default_steve_hash,
                                              NoMetadata))
                 ELSE OkNone, <<>>)}
      [] req.op = "get_texture_bytes" -> {Run(OkNone, <<>>)}
      [] req.op = "get_texture_bytes_by_hash" ->
            IF req.hash = default_steve_hash
            THEN LET got == download_file_from_url(env.texture)
                 IN  {Run(IF got.tag = "Some"
                          THEN OkSome(RetrievedTextureBytes(default_steve_hash,
                                                            got.value, NoMetadata))
                          ELSE got,
                          <<TextureExchange(env.texture)>>)}
            ELSE {Run(OkNone, <<>>)}

\* Mutant: the embedded retriever has no bytes of its own and goes to the
\* default skin's URL for them.
EmbeddedDefaultRuns_Downloads(req, env) == DefaultSkinRuns(req, env)

\* impl TextureRetriever for EmbeddedDefaultSkinRetriever (default_skin.rs
\* 150-224).
EmbeddedDefaultRuns(req, env) ==
    CASE req.op = "get_texture" ->
            {Run(IF req.texture_type = "SKIN"
                 THEN OkSome(RetrievedTexture(
                          Url("BASE_URL/download/", default_skin_hash, ""),
                          default_skin_hash, NoMetadata))
                 ELSE OkNone, <<>>)}
      [] req.op = "get_texture_bytes" ->
            {Run(IF req.texture_type = "SKIN"
                 THEN OkSome(RetrievedTextureBytes(default_skin_hash,
                                                   default_skin_data, NoMetadata))
                 ELSE OkNone, <<>>)}
      [] req.op = "get_texture_bytes_by_hash" ->
            {Run(IF req.hash = default_skin_hash
                 THEN OkSome(RetrievedTextureBytes(default_skin_hash,
                                                   default_skin_data, NoMetadata))
                 ELSE OkNone, <<>>)}

\* impl TextureRetriever for StorageRetriever (storage_retriever.rs 23-132)
\* over the table and the backend of the service. The caller has the text of
\* a storage error, as of every other error. A hash no upload of the model
\* can store has no file: get_file fails and by-hash gives None.
StorageRuns(req, env) ==
    CASE req.op = "get_texture" ->
            {Run(StorageRetriever_get_texture(textures, req.user, req.texture_type,
                                              env.db_fails), <<>>)}
      [] req.op = "get_texture_bytes" ->
            LET got == StorageRetriever_get_texture_bytes(textures, storage_type,
                           objects[storage_type], req.user, req.texture_type,
                           env.db_fails, env.unreachable)
            IN  {Run(IF got.tag = "Err" /\ ~env.db_fails
                     THEN Err(got.value.cause) ELSE got, <<>>)}
      [] req.op = "get_texture_bytes_by_hash" ->
            IF req.hash \in GetHashes
            THEN {Run(r, <<>>) :
                    r \in StorageRetriever_get_texture_bytes_by_hash(textures,
                              storage_type, objects[storage_type], req.hash,
                              env.db_fails, env.unreachable)}
            ELSE {Run(OkNone, <<>>)}

\* The runs of one member's operation.
MemberRuns(h, req, env) ==
    CASE h.retriever = "Storage" -> StorageRuns(req, env)
      [] h.retriever = "Mojang" -> MojangRuns(req, env)
      [] h.retriever = "DefaultSkin" -> DefaultSkinRuns(req, env)
      [] h.retriever = "EmbeddedDefault" -> EmbeddedDefaultRuns(req, env)

\* A member invocation completed by a retriever operation.
Invocation(i, h, run) ==
    [index |-> i, retriever |-> h.retriever, result |-> run.result, net |-> run.net]

\* What the caller of a retriever operation gets, with the invocations made.
Retrieved(outcome, made) == [result |-> outcome, invoked |-> made]

RECURSIVE ChainRunsFrom(_, _, _, _, _)
\* chain.rs 40-98, 100-136, 138-168: the for loop from handler i on, made
\* being the invocations completed before it.
ChainRunsFrom(hs, i, req, env, made) ==
    IF i > Len(hs) THEN {Retrieved(ExhaustedResult, made)}
    ELSE IF ShouldSkip(hs[i], req) THEN ChainRunsFrom(hs, i + 1, req, env, made)
    ELSE UNION {IF Continues(run.result)
                THEN ChainRunsFrom(hs, NextIndex(i, run.result), req, env,
                                   Append(made, Invocation(i, hs[i], run)))
                ELSE {Retrieved(run.result, Append(made, Invocation(i, hs[i], run)))} :
                  run \in MemberRuns(hs[i], req, env)}

\* An operation of AppState.retriever: of the single retriever, or of the
\* ChainRetriever over its handlers.
RetrieverRuns(rt, req, env) ==
    IF rt.kind = "chain" THEN ChainRunsFrom(rt.members, 1, req, env, <<>>)
    ELSE {Retrieved(run.result, <<Invocation(1, rt.members[1], run)>>) :
            run \in MemberRuns(rt.members[1], req, env)}

\* supports_texture_type of AppState.retriever.
RetrieverSupports(rt, texture_type) ==
    IF rt.kind = "chain" THEN AnySupports(rt.members, texture_type)
    ELSE supports_texture_type(rt.members[1], texture_type)

\* ------------------------------------------- a retriever and its callers

\* The four implementations of TextureRetriever.
Implementations ==
    {Member("Storage"), Member("Mojang"), Member("DefaultSkin"),
     Member("EmbeddedDefault")}

Single(h) == [kind |-> "single", members |-> <<h>>]

\* ChainRetriever::new(handlers) (chain.rs 17-19).
Chain(hs) == [kind |-> "chain", members |-> hs]

\* The retrievers a caller of the library can hold: one implementation, or a
\* ChainRetriever over up to MaxMembers of them.
Retrievers ==
    {Single(h) : h \in Implementations}
        \cup {Chain(hs) : hs \in UNION {[1..n -> Implementations] : n \in 1..MaxMembers}}

\* The request a retriever has answered: the operation, its arguments, what it
\* returned and the member invocations it made; for a handler of the HTTP
\* boundary, the response as well.
Served(handler, req, retrieved, response) ==
    [handler |-> handler, pc |-> "respond", op |-> req.op, user |-> req.user,
     texture_type |-> req.texture_type, hash |-> req.hash,
     result |-> retrieved.result, invoked |-> retrieved.invoked,
     response |-> response]

\* The hashes a by-hash request asks for: the two defaults' and the stored
\* files'.
ByHashRequests == GetHashes \cup {default_skin_hash}

UserRequests ==
    {UserRequest(op, u, t, Idle.hash) :
        op \in {"get_texture", "get_texture_bytes"}, u \in Users, t \in TextureType}
        \cup {UserRequest("get_texture_bytes_by_hash", "-", "-", h) : h \in ByHashRequests}

\* The implementations among the members of a retriever.
Uses(rt, name) == \E i \in 1..Len(rt.members) : rt.members[i].retriever = name

\* The environments that differ for an operation of a retriever: the database
\* and the storage backend answer or not when a StorageRetriever is asked; the
\* session server's response when a MojangRetriever is asked by user and kind;
\* the texture host's response when bytes are asked of a MojangRetriever or a
\* DefaultSkinRetriever.
EnvsFor(rt, req) ==
    {Env(x, y, p, t) :
        x \in IF Uses(rt, "Storage") THEN BOOLEAN ELSE {FALSE},
        y \in IF Uses(rt, "Storage") /\ req.op # "get_texture" THEN BOOLEAN ELSE {FALSE},
        p \in IF Uses(rt, "Mojang") /\ req.op # "get_texture_bytes_by_hash"
              THEN ProfileResponses
              ELSE {ProfileResponse(TRUE, TRUE, ProfileBody(TRUE, "payload", NoTextures))},
        t \in IF (Uses(rt, "Mojang") \/ Uses(rt, "DefaultSkin")) /\ req.op # "get_texture"
              THEN TextureResponses
              ELSE {TextureResponse(TRUE, TRUE, TRUE, SteveImage)}}

\* Mutant: the bytes a by-hash retrieval returns are kept in the storage
\* backend for the next request.
RetrieverCall_Caches(req, env) ==
    /\ boot.pc = "serving"
    /\ http.pc = "idle"
    /\ \E run \in RetrieverRuns(retriever, req, env) :
          /\ http' = Served("retriever", req, run, Response("-", "-"))
          /\ objects' =
                IF run.result.tag = "Some" /\ req.op = "get_texture_bytes_by_hash"
                   /\ req.hash \in GetHashes
                THEN [objects EXCEPT ![storage_type][StoreKey(storage_type, req.hash,
                                                             ByHashExtension)] =
                          File(run.result.value.bytes)]
                ELSE objects
    /\ UNCHANGED <<storage_type, textures, uploaded>>
    /\ UNCHANGED <<lastCall, stored, storedHashes, faulted>>
    /\ UNCHANGED <<chainVars, bootVars, taskVars>>

\* A caller awaits one of the three operations of the retriever.
RetrieverCall(req, env) ==
    /\ boot.pc = "serving"
    /\ http.pc = "idle"
    /\ \E run \in RetrieverRuns(retriever, req, env) :
          http' = Served("retriever", req, run, Response("-", "-"))
    /\ UNCHANGED <<storage_type, textures, uploaded>>
    /\ UNCHANGED <<chainVars, storageVars, bootVars, taskVars>>

\* A caller asks supports_texture_type.
RetrieverSupportsCall(texture_type) ==
    /\ boot.pc = "serving"
    /\ http.pc = "idle"
    /\ http' = Served("retriever",
                      UserRequest("supports_texture_type", "-", texture_type, Idle.hash),
                      Retrieved(Ok(RetrieverSupports(retriever, texture_type)), <<>>),
                      Response("-", "-"))
    /\ UNCHANGED <<storage_type, textures, uploaded>>
    /\ UNCHANGED <<chainVars, storageVars, bootVars, taskVars>>

\* The uploads the service of SpecRetrievers and SpecBoundary has taken:
\* uuid-1's skin, and for some services uuid-1's cape too, of the same file.
SeedUser == "uuid-1"

SeedFile == Payload(1)

SeedKinds == {{"SKIN"}, {"SKIN", "CAPE"}}

\* The storage and the table after upload_texture stored SeedFile as SeedUser's
\* texture of each of the kinds on backend b and answered 200 (handlers.rs
\* 196-253).
SeededService(b, kinds) ==
    /\ storage_type = b
    /\ objects = [NoObjects EXCEPT ![b] =
                    store_file(b, NoObjects[b], SeedFile, UploadHash(SeedFile),
                               file_extension("SKIN"), "none").objects]
    /\ lastCall = NoCall
    /\ stored = [c \in Backends |-> [q \in GetHashes \X GetExtensions |->
                    IF c = b /\ q = <<UploadHash(SeedFile), file_extension("SKIN")>>
                    THEN Known(SeedFile) ELSE Unknown]]
    /\ storedHashes = {}
    /\ faulted = FALSE
    /\ textures = [k \in Users \X TextureType |->
                    IF k[1] = SeedUser /\ k[2] \in kinds
                    THEN Row(UploadHash(SeedFile),
                             generate_url(b, UploadHash(SeedFile), file_extension(k[2])),
                             UploadMetadata(FALSE))
                    ELSE NoRow]
    /\ uploaded = [k \in Users \X TextureType |->
                    IF k[1] = SeedUser /\ k[2] \in kinds
                    THEN [known |-> TRUE, bytes |-> SeedFile,
                          url |-> generate_url(b, UploadHash(SeedFile),
                                               file_extension(k[2]))]
                    ELSE NotUploaded]
    /\ http = Idle

\* A caller holds any retriever over the service's table and storage, which
\* have taken their uploads.
InitRetrievers ==
    /\ ChainUnused
    /\ \E b \in Backends : \E kinds \in SeedKinds : SeededService(b, kinds)
    /\ boot = [pc |-> "serving", config |-> "-", storage |-> TRUE]
    /\ retriever \in Retrievers
    /\ TasksUnused

\* The service is up and no request is being handled.
Ready == boot.pc = "serving" /\ http.pc = "idle"

NextRetrievers ==
    \/ Ready /\ \E req \in UserRequests : \E env \in EnvsFor(retriever, req) :
                   RetrieverCall(req, env)
    \/ \E t \in TextureType : RetrieverSupportsCall(t)
    \/ Respond

SpecRetrievers == InitRetrievers /\ [][NextRetrievers]_vars

\* ------------------------------------------------ claims on the retrievers

\* A retriever operation has been answered.
Called(op) == http.pc = "respond" /\ http.handler = "retriever" /\ http.op = op

CalledRetrieval ==
    \/ Called("get_texture")
    \/ Called("get_texture_bytes")
    \/ Called("get_texture_bytes_by_hash")

\* A network call that got a response with a non-success status, or with a
\* payload that is not what it is decoded as.
FailedExchange(x) == x.sent /\ (~x.success \/ ~x.wellformed)

\* C13: every MojangRetriever operation one of whose network calls ended in a
\* non-success status or in an undecodable or malformed payload (a profile
\* without a textures property included) returns an error: not None, and not
\* the body of the failed response as texture bytes.
C13_MojangFailuresAreErrors ==
    CalledRetrieval =>
        \A i \in 1..Len(http.invoked) :
            (/\ http.invoked[i].retriever = "Mojang"
             /\ \E n \in 1..Len(http.invoked[i].net) :
                   FailedExchange(http.invoked[i].net[n]))
              => http.invoked[i].result.tag = "Err"

\* The invocations the answered operation made of one implementation.
InvocationsOf(name) ==
    {i \in 1..Len(http.invoked) : http.invoked[i].retriever = name}

\* C14: DefaultSkinRetriever::get_texture returns the same fixed hash and URL
\* for every user when the kind is SKIN and None when it is CAPE; the chain
\* [Storage, DefaultSkin] returns None from get_texture and from
\* get_texture_bytes for CAPE and a user who has no CAPE row.
C14_DefaultSkinOnlyForSkin ==
    /\ (Called("get_texture") /\ retriever = Single(Member("DefaultSkin")))
          => IF http.texture_type = "SKIN"
             THEN /\ http.result.tag = "Some"
                  /\ http.result.value.hash = default_steve_hash
                  /\ http.result.value.url = default_steve_url
             ELSE http.result.tag = "None"
    /\ (/\ Called("get_texture") \/ Called("get_texture_bytes")
        /\ retriever = Chain(<<Member("Storage"), Member("DefaultSkin")>>)
        /\ http.texture_type = "CAPE"
        /\ ~textures[<<http.user, "CAPE">>].present)
          => /\ http.result.tag = "None"
             /\ InvocationsOf("DefaultSkin") = {}

\* The chain [Storage, DefaultSkin] answered get_texture_bytes for the CAPE of a
\* user without a CAPE row, having asked the StorageRetriever, while another
\* user of the same service has a CAPE row.
C14_Witness ==
    /\ Called("get_texture_bytes")
    /\ retriever = Chain(<<Member("Storage"), Member("DefaultSkin")>>)
    /\ http.texture_type = "CAPE"
    /\ ~textures[<<http.user, "CAPE">>].present
    /\ textures[<<SeedUser, "CAPE">>].present
    /\ InvocationsOf("Storage") = {1}
    /\ http.result.tag = "None"

\* C15: the chain [Storage, EmbeddedDefault] asked for the SKIN of a user who
\* has no SKIN row returns the embedded hash from get_texture and the embedded
\* bytes from get_texture_bytes, and no operation of the
\* EmbeddedDefaultSkinRetriever makes a network call.
C15_EmbeddedDefaultFallback ==
    /\ (/\ retriever = Chain(<<Member("Storage"), Member("EmbeddedDefault")>>)
        /\ Called("get_texture") \/ Called("get_texture_bytes")
        /\ http.texture_type = "SKIN"
        /\ ~textures[<<http.user, "SKIN">>].present)
          => /\ Called("get_texture")
                  => /\ http.result.tag = "Some"
                     /\ http.result.value.hash = default_skin_hash
             /\ Called("get_texture_bytes")
                  => /\ http.result.tag = "Some"
                     /\ http.result.value.hash = default_skin_hash
                     /\ http.result.value.bytes = default_skin_data
    /\ CalledRetrieval
          => \A i \in InvocationsOf("EmbeddedDefault") : http.invoked[i].net = <<>>

\* The chain [Storage, EmbeddedDefault] answered get_texture_bytes for the SKIN
\* of a user without a SKIN row with the embedded bytes, after the
\* StorageRetriever failed on the database.
C15_Witness ==
    /\ Called("get_texture_bytes")
    /\ retriever = Chain(<<Member("Storage"), Member("EmbeddedDefault")>>)
    /\ http.texture_type = "SKIN"
    /\ ~textures[<<http.user, "SKIN">>].present
    /\ Len(http.invoked) = 2
    /\ http.invoked[1].result.tag = "Err"
    /\ http.result.tag = "Some"
    /\ http.result.value.bytes = default_skin_data

\* The request being answered, asked of the EmbeddedDefaultSkinRetriever.
EmbeddedAnswers ==
    {run.result.tag :
        run \in EmbeddedDefaultRuns(
                    UserRequest(http.op, http.user, http.texture_type, http.hash),
                    CHOOSE env \in Envs : TRUE)}

\* Every network call of the answered operation got a readable success
\* response.
ImageReachable ==
    \A i \in 1..Len(http.invoked) : \A n \in 1..Len(http.invoked[i].net) :
        /\ http.invoked[i].net[n].sent
        /\ http.invoked[i].net[n].success
        /\ http.invoked[i].net[n].wellformed

\* C16: with the default image reachable at its URL, get_texture and
\* get_texture_bytes of the DefaultSkinRetriever return Some exactly when the
\* EmbeddedDefaultSkinRetriever's do, for every user and kind;
\* supports_texture_type is the same on both; and
\* get_texture_bytes_by_hash returns Some on each exactly for its own default
\* hash.
C16_DefaultsEquivalent ==
    /\ (retriever = Single(Member("DefaultSkin")) /\ http.pc = "respond")
          => /\ (Called("get_texture") \/ Called("get_texture_bytes"))
                  => EmbeddedAnswers = {http.result.tag}
             /\ Called("supports_texture_type")
                  => http.result.value =
                        supports_texture_type(Member("EmbeddedDefault"), http.texture_type)
             /\ (Called("get_texture_bytes_by_hash") /\ ImageReachable)
                  => (http.result.tag = "Some" <=> http.hash = default_steve_hash)
    /\ (retriever = Single(Member("EmbeddedDefault"))
        /\ Called("get_texture_bytes_by_hash"))
          => (http.result.tag = "Some" <=> http.hash = default_skin_hash)

\* ------------------------------------------------ the process and its boundary

\* config.rs 40-44: enum RetrievalType.
RetrievalType == {"Storage", "Mojang", "DefaultSkin"}

\* config.rs 5-19: the fields of Config that main's construction steps read,
\* storage_type apart, which is the variable of that name. local_storage_path
\* and s3_bucket: the Option is Some. retrieval_chain: None, or Some of the
\* list parsed from RETRIEVAL_CHAIN.
Config(local_storage_path, s3_bucket, retrieval_type, retrieval_chain) ==
    [local_storage_path |-> local_storage_path, s3_bucket |-> s3_bucket,
     retrieval_type |-> retrieval_type, retrieval_chain |-> retrieval_chain]

NoChain == [some |-> FALSE, types |-> <<>>]

SomeChain(types) == [some |-> TRUE, types |-> types]

\* config.rs 60-95: what from_env can load: either path variable set or not,
\* any retrieval type, no RETRIEVAL_CHAIN or a list of one to MaxMembers
\* types (an empty RETRIEVAL_CHAIN fails to parse).
Configs ==
    {Config(p, b, t, c) :
        p \in BOOLEAN, b \in BOOLEAN, t \in RetrievalType,
        c \in {NoChain} \cup {SomeChain(ts) :
                 ts \in UNION {[1..n -> RetrievalType] : n \in 1..MaxMembers}}}

\* Mutant: only the local path is looked at.
validate_LocalOnly(backend, config) ==
    IF backend = "Local" /\ ~config.local_storage_path
    THEN Err("LOCAL_STORAGE_PATH must be set for local storage")
    ELSE Ok("()")

\* config.rs 97-110: Config::validate.
validate(backend, config) ==
    IF backend = "Local"
    THEN IF ~config.local_storage_path
         THEN Err("LOCAL_STORAGE_PATH must be set for local storage")
         ELSE Ok("()")
    ELSE IF ~config.s3_bucket
         THEN Err("S3_BUCKET must be set for S3 storage")
         ELSE Ok("()")

\* storage/mod.rs 13-18 create_storage with local.rs 13-22 LocalStorage::new
\* and s3.rs 24-39 S3Storage::new: the `expect` on the path or the bucket
\* panics when the Option is None.
create_storage(backend, config) ==
    IF backend = "Local"
    THEN IF config.local_storage_path THEN Ok("LocalStorage")
         ELSE Err("Local storage path must be configured for Local storage")
    ELSE IF config.s3_bucket THEN Ok("S3Storage")
         ELSE Err("S3 bucket must be configured for S3 storage")

\* retrieval/mod.rs 65-85: create_retriever_by_type.
create_retriever_by_type(retrieval_type) == Member(retrieval_type)

\* retrieval/mod.rs 55-62: create_single_retriever.
create_single_retriever(config) == Single(create_retriever_by_type(config.retrieval_type))

\* Mutant: the handlers are built from the configured list back to front.
create_retriever_Reversed(config) ==
    IF config.retrieval_chain.some /\ Len(config.retrieval_chain.types) > 0
    THEN Chain([i \in 1..Len(config.retrieval_chain.types) |->
                  create_retriever_by_type(config.retrieval_chain.types[
                      Len(config.retrieval_chain.types) + 1 - i])])
    ELSE create_single_retriever(config)

\* retrieval/mod.rs 19-52: create_retriever: a non-empty retrieval_chain makes
\* a ChainRetriever of its types in order, anything else the single retriever
\* of retrieval_type.
create_retriever(config) ==
    IF config.retrieval_chain.some /\ Len(config.retrieval_chain.types) > 0
    THEN Chain([i \in 1..Len(config.retrieval_chain.types) |->
                  create_retriever_by_type(config.retrieval_chain.types[i])])
    ELSE create_single_retriever(config)

\* main at one of its steps, with the Config loaded and whether the storage
\* backend has been constructed.
Boot(p, config, storage, error) ==
    [pc |-> p, config |-> config, storage |-> storage, error |-> error]

\* main.rs 40: config.validate()?.
Validate ==
    /\ boot.pc = "loaded"
    /\ boot' = IF validate(storage_type, boot.config).tag = "Err"
               THEN [boot EXCEPT !.pc = "failed",
                                 !.error = validate(storage_type, boot.config).value]
               ELSE [boot EXCEPT !.pc = "validated"]
    /\ UNCHANGED retriever
    /\ UNCHANGED <<chainVars, storageVars, serviceVars, taskVars>>

\* main.rs 46-53: PgPool::connect and the test query, each with `?`.
ConnectDatabase(db_fails) ==
    /\ boot.pc = "validated"
    /\ boot' = IF db_fails
               THEN [boot EXCEPT !.pc = "failed", !.error = "database"]
               ELSE [boot EXCEPT !.pc = "connected"]
    /\ UNCHANGED retriever
    /\ UNCHANGED <<chainVars, storageVars, serviceVars, taskVars>>

\* main.rs 58: create_storage(config.clone()).
CreateStorage ==
    /\ boot.pc = "connected"
    /\ boot' = IF create_storage(storage_type, boot.config).tag = "Err"
               THEN [boot EXCEPT !.pc = "panicked",
                        !.error = create_storage(storage_type, boot.config).value]
               ELSE [boot EXCEPT !.pc = "storage", !.storage = TRUE]
    /\ UNCHANGED retriever
    /\ UNCHANGED <<chainVars, storageVars, serviceVars, taskVars>>

\* main.rs 61-90: create_retriever, AppState, the router: the service serves.
CreateRetriever ==
    /\ boot.pc = "storage"
    /\ retriever' = create_retriever(boot.config)
    /\ boot' = [boot EXCEPT !.pc = "serving"]
    /\ UNCHANGED <<chainVars, storageVars, serviceVars, taskVars>>

\* handlers.rs 93-115: get_texture's answer to what the retriever returned.
get_texture_response(retrieved) ==
    CASE retrieved.tag = "Err" ->
            Response("500 INTERNAL_SERVER_ERROR", "Failed to retrieve texture")
      [] retrieved.tag = "None" -> Response("404 NOT_FOUND", "Texture not found")
      [] retrieved.tag = "Some" ->
            Response("200 OK", [url |-> retrieved.value.url,
                                digest |-> retrieved.value.hash,
                                metadata |-> retrieved.value.metadata])

\* handlers.rs 269-287: download_texture's answer.
download_texture_response(retrieved) ==
    CASE retrieved.tag = "Err" ->
            Response("500 INTERNAL_SERVER_ERROR", "Failed to retrieve texture")
      [] retrieved.tag = "None" -> Response("404 NOT_FOUND", "Texture not found")
      [] retrieved.tag = "Some" -> Response("200 OK", retrieved.value.bytes)

\* handlers.rs 82-116: GET /get/:uuid/:texture_type.
HandleGetTexture(user, texture_type, env) ==
    /\ boot.pc = "serving"
    /\ http.pc = "idle"
    /\ \E run \in RetrieverRuns(retriever,
                    UserRequest("get_texture", user, texture_type, Idle.hash), env) :
          http' = Served("handlers::get_texture",
                         UserRequest("get_texture", user, texture_type, Idle.hash),
                         run, get_texture_response(run.result))
    /\ UNCHANGED <<storage_type, textures, uploaded>>
    /\ UNCHANGED <<chainVars, storageVars, bootVars, taskVars>>

\* handlers.rs 257-288: GET /download/:texture_type/:uuid.
HandleDownloadTexture(user, texture_type, env) ==
    /\ boot.pc = "serving"
    /\ http.pc = "idle"
    /\ \E run \in RetrieverRuns(retriever,
                    UserRequest("get_texture_bytes", user, texture_type, Idle.hash), env) :
          http' = Served("handlers::download_texture",
                         UserRequest("get_texture_bytes", user, texture_type, Idle.hash),
                         run, download_texture_response(run.result))
    /\ UNCHANGED <<storage_type, textures, uploaded>>
    /\ UNCHANGED <<chainVars, storageVars, bootVars, taskVars>>

\* main has loaded its Config; the database and the storage hold what earlier
\* runs of the service stored.
InitBoundary ==
    /\ ChainUnused
    /\ \E b \in Backends : \E kinds \in SeedKinds : SeededService(b, kinds)
    /\ boot \in {Boot("loaded", c, FALSE, "-") : c \in Configs}
    /\ retriever = Single(Member("Storage"))
    /\ TasksUnused

NextBoot ==
    \/ Validate
    \/ \E x \in BOOLEAN : ConnectDatabase(x)
    \/ CreateStorage
    \/ CreateRetriever

NextBoundary ==
    \/ NextBoot
    \/ Ready /\ \E u \in Users : \E t \in TextureType :
          \E env \in EnvsFor(retriever, UserRequest("get_texture", u, t, Idle.hash)) :
              HandleGetTexture(u, t, env)
    \/ Ready /\ \E u \in Users : \E t \in TextureType :
          \E env \in EnvsFor(retriever, UserRequest("get_texture_bytes", u, t, Idle.hash)) :
              HandleDownloadTexture(u, t, env)
    \/ Respond

SpecBoundary == InitBoundary /\ [][NextBoundary]_vars

\* main runs on: each of its steps is taken once it can be.
SpecBoundaryFair == SpecBoundary /\ WF_vars(NextBoot)

\* ----------------------------------- claims on the process and its boundary

\* The configured backend lacks what it cannot work without: the Local
\* backend its path, the S3 backend its bucket.
Misconfigured ==
    \/ storage_type = "Local" /\ ~boot.config.local_storage_path
    \/ storage_type = "S3" /\ ~boot.config.s3_bucket

\* C18: a process whose configured backend lacks its path or bucket fails at
\* start-up: it never gets past Config::validate, so no backend is constructed
\* and no request is served, it does fail, and no constructor ever meets a
\* missing path or bucket.
C18_MisconfiguredFailsAtStart ==
    /\ [](Misconfigured =>
            /\ boot.pc \in {"loaded", "failed"}
            /\ ~boot.storage
            /\ http = Idle)
    /\ [](boot.pc # "panicked")
    /\ (Misconfigured ~> (boot.pc = "failed"))

\* An S3 service without a bucket has failed in validate.
C18_Witness ==
    /\ Misconfigured
    /\ storage_type = "S3"
    /\ boot.pc = "failed"
    /\ boot.error = "S3_BUCKET must be set for S3 storage"

\* A handler of the boundary has answered.
Handled ==
    /\ http.pc = "respond"
    /\ http.handler \in {"handlers::get_texture", "handlers::download_texture"}

\* C19: whatever retriever create_retriever built, a get_texture or
\* download_texture request none of whose sources returned a texture (each
\* returned None or an error) is answered 404, never 500.
C19_ExhaustionIsNotFound ==
    (/\ Handled
     /\ \A i \in 1..Len(http.invoked) : http.invoked[i].result.tag \in {"None", "Err"})
      => http.response.status = "404 NOT_FOUND"

\* ------------------------------------------- further claims on the retrievers

\* C23: the bytes a MojangRetriever returns from get_texture_bytes carry the
\* digest of the downloaded payload: hash = calculate_hash(bytes).
C23_BytesDigestIsPayloadHash ==
    Called("get_texture_bytes") =>
        \A i \in 1..Len(http.invoked) :
            (http.invoked[i].retriever = "Mojang" /\ http.invoked[i].result.tag = "Some")
              => http.invoked[i].result.value.hash =
                    calculate_hash(http.invoked[i].result.value.bytes)

\* ------------------------------------ further claims on the process's retriever

\* The retrieval types of a configured chain that is present and not empty.
ConfiguredChain(config) ==
    IF config.retrieval_chain.some THEN config.retrieval_chain.types ELSE <<>>

\* The retriever is the ChainRetriever over exactly the types, one member per
\* entry, in their order.
IsChainOf(rt, types) ==
    /\ rt.kind = "chain"
    /\ Len(rt.members) = Len(types)
    /\ \A i \in 1..Len(types) : rt.members[i].retriever = types[i]

\* The retriever is the single retriever of the type, not a chain.
IsSingleOf(rt, retrieval_type) ==
    /\ rt.kind = "single"
    /\ Len(rt.members) = 1
    /\ rt.members[1].retriever = retrieval_type

\* C26: the retriever the service serves with is the chain of exactly the
\* configured retrieval types, one member per entry in the configured order,
\* duplicates kept; with no RETRIEVAL_CHAIN, or an empty one, it is the single
\* retriever of retrieval_type and no chain.
C26_FactoryFollowsConfig ==
    /\ boot.pc = "serving" =>
          IF ConfiguredChain(boot.config) # <<>>
          THEN IsChainOf(retriever, ConfiguredChain(boot.config))
          ELSE IsSingleOf(retriever, boot.config.retrieval_type)
    /\ \A t \in RetrievalType :
          IsSingleOf(create_retriever(Config(TRUE, TRUE, t, SomeChain(<<>>))), t)

\* The service serves with the chain of a MojangRetriever followed by a
\* StorageRetriever, built from RETRIEVAL_CHAIN=mojang,storage.
C26_Witness ==
    /\ boot.pc = "serving"
    /\ boot.config.retrieval_chain = SomeChain(<<"Mojang", "Storage">>)
    /\ retriever = Chain(<<Member("Mojang"), Member("Storage")>>)

\* Every source answers: the database and the storage backend are reachable,
\* the session server returns a profile with a textures payload, the texture
\* host returns an image.
NoSourceFails(env) ==
    /\ ~env.db_fails
    /\ ~env.unreachable
    /\ env.profile.sent /\ env.profile.success
    /\ env.profile.body.decodes /\ env.profile.body.property = "payload"
    /\ env.texture.sent /\ env.texture.success /\ env.texture.readable

\* Some run of the operation returns a texture.
NonEmpty(rt, op, user, texture_type, env) ==
    \E run \in RetrieverRuns(rt, UserRequest(op, user, texture_type, Idle.hash), env) :
        run.result.tag = "Some"

\* C30: whatever retriever create_retriever built, for every user and kind
\* and every environment in which no source fails, get_texture returns a
\* texture only if get_texture_bytes returns one too.
C30_ListedImpliesDownloadable ==
    boot.pc = "serving" =>
        \A u \in Users : \A t \in TextureType :
            \A env \in {e \in Envs : NoSourceFails(e)} :
                NonEmpty(retriever, "get_texture", u, t, env)
                  => NonEmpty(retriever, "get_texture_bytes", u, t, env)

\* ---------------------------------------------- further claims on the chain

\* C25: get_texture_bytes_by_hash of the chain applies no kind filter. Its
\* k-th invocation is of the k-th member, whatever kinds the member supports;
\* it goes on while the members answer empty or fail and returns the first
\* non-empty answer as it is; it returns empty only after every member was
\* consulted. A member without a by-hash operation of its own (the trait's
\* default) answers empty and the chain moves past it.
C25_ByHashNoKindFilter ==
    request.op = "get_texture_bytes_by_hash" =>
        /\ \A k \in 1..Len(invoked) :
              /\ invoked[k].index = k
              /\ k < Len(invoked) => invoked[k].outcome.tag \in {"None", "Err"}
              /\ handlers[k].retriever = "Mock" => invoked[k].outcome = OkNone
        /\ (pc = "loop" \/ pc = "await") => index = Len(invoked) + 1
        /\ pc = "returned" =>
              IF result.tag = "Some"
              THEN /\ invoked # <<>>
                   /\ result = invoked[Len(invoked)].outcome
                   /\ handlers[Len(invoked)].retriever # "Mock"
              ELSE /\ result = OkNone
                   /\ Len(invoked) = Len(handlers)
                   /\ \A k \in 1..Len(invoked) : invoked[k].outcome.tag \in {"None", "Err"}

\* A by-hash request for the Steve hash went past a MockRetriever that
\* supports no kind and was answered by the DefaultSkinRetriever after it.
C25_Witness ==
    /\ request.op = "get_texture_bytes_by_hash"
    /\ pc = "returned"
    /\ Len(handlers) >= 2
    /\ handlers[1] = MockRetriever({})
    /\ handlers[2] = Member("DefaultSkin")
    /\ Len(invoked) = 2
    /\ invoked[1].outcome = OkNone
    /\ result.tag = "Some"

\* ------------------------------------------- the frame of the retrieval calls

Usernames == {"alice", "bob"}

Uuids == Users \cup {"uuid-3"}

\* The response of api.mojang.com/users/profiles/minecraft/<name>: no
\* response; 204 No Content; another status; a 200 whose body is not the JSON
\* of an id, or whose id is no UUID, or is one.
NameResponse(sent, status, id) == [sent |-> sent, status |-> status, id |-> id]

NameResponses ==
    {NameResponse(FALSE, "-", "-"), NameResponse(TRUE, "204", "-"),
     NameResponse(TRUE, "404", "-"), NameResponse(TRUE, "200", "bad json"),
     NameResponse(TRUE, "200", "not a uuid")}
        \cup {NameResponse(TRUE, "200", u) : u \in Uuids}

\* mojang.rs 83-119: resolve_username_to_uuid.
resolve_username_to_uuid(response) ==
    IF ~response.sent THEN Err("Failed to resolve username from Mojang")
    ELSE IF response.status = "204" THEN OkNone
    ELSE IF response.status # "200" THEN Err("Mojang API returned error")
    ELSE IF response.id = "bad json" THEN Err("Failed to parse UUID response")
    ELSE IF response.id \notin Uuids THEN Err("Failed to parse UUID")
    ELSE OkSome(response.id)

\* mojang.rs 240-248: SELECT username FROM username_mappings WHERE user_uuid =
\* $1 LIMIT 1: the results the query can give, any one of the user's rows.
username_lookup(mappings, user, db_fails) ==
    IF db_fails THEN {Err("database error")}
    ELSE IF \E n \in Usernames : <<user, n>> \in mappings
    THEN {OkSome(n) : n \in {m \in Usernames : <<user, m>> \in mappings}}
    ELSE {OkNone}

\* Mutant: the resolved identity is not used.
fetch_uuid_KeepsRequested(user_uuid, toggle, db, record, resolved) == user_uuid

\* mojang.rs 236-276: the identity get_textures fetches the profile of:
\* the resolved one when the toggle is set, there is a database handle, the
\* query found a name and the name resolved; user_uuid otherwise.
fetch_uuid(user_uuid, toggle, db, record, resolved) ==
    IF toggle /\ db /\ record.tag = "Some" /\ resolved.tag = "Some"
    THEN resolved.value
    ELSE user_uuid

\* mojang.rs 235-279: MojangRetriever::get_textures, with the reads it makes
\* in order: the username_mappings query, the name's resolution, the profile.
MojangGetTextures(user, db_fails, name_response, profiles) ==
    /\ http.pc = "idle"
    /\ \E record \in username_lookup(username_mappings, user, db_fails) :
         LET toggle == boot.config.use_database_username_in_mojang_requests
             db == boot.config.db
             queried == toggle /\ db
             asked == queried /\ record.tag = "Some"
             resolved == IF asked THEN resolve_username_to_uuid(name_response)
                         ELSE OkNone
             fetched == fetch_uuid(user, toggle, db, record, resolved)
         IN  http' = [handler |-> "MojangRetriever::get_textures", pc |-> "respond",
                      user |-> user, db_fails |-> db_fails,
                      record |-> IF queried THEN record ELSE OkNone,
                      name_response |-> name_response,
                      profiles |-> profiles,
                      reads |-> (IF queried THEN <<"username_mappings">> ELSE <<>>)
                                  \o (IF asked THEN <<"api.mojang.com">> ELSE <<>>)
                                  \o <<"sessionserver.mojang.com">>,
                      fetched |-> fetched,
                      result |-> get_textures_from_mojang(profiles[fetched])]
    /\ UNCHANGED <<storage_type, textures, uploaded>>
    /\ UNCHANGED <<chainVars, storageVars, bootVars, taskVars>>

\* The session server's answers for an identity: an error status, or the
\* profile with a skin.
ProfileAnswers ==
    {ProfileResponse(TRUE, FALSE, ProfileBody(FALSE, "missing", NoTextures)),
     ProfileResponse(TRUE, TRUE, ProfileBody(TRUE, "payload",
        [t \in TextureType |->
            IF t = "SKIN"
            THEN TextureData(MojangTextureUrl(calculate_hash(Payload(1)), ""), NoMetadata)
            ELSE NoTextureData]))}

\* A MojangRetriever constructed with the toggle set or not and with a
\* database handle or none (mojang.rs 69-79), over a username_mappings table
\* with any rows.
InitMojang ==
    /\ ChainUnused
    /\ StorageInit
    /\ ServiceUnused
    /\ \E toggle, db \in BOOLEAN :
          boot = [pc |-> "serving",
                  config |-> [use_database_username_in_mojang_requests |-> toggle,
                              db |-> db],
                  storage |-> FALSE]
    /\ retriever = Single(Member("Mojang"))
    /\ username_mappings \in SUBSET (Users \X Usernames)
    /\ tasks = <<>>

NextMojang ==
    \/ \E u \in Users : \E x \in BOOLEAN : \E r \in NameResponses :
          \E p \in [Uuids -> ProfileAnswers] : MojangGetTextures(u, x, r, p)
    \/ Respond

SpecMojang == InitMojang /\ [][NextMojang]_vars

\* get_textures has returned.
GotTextures == http.pc = "respond" /\ http.handler = "MojangRetriever::get_textures"

\* The name's resolution gave an identity: a 200 with the JSON of a UUID.
Resolves(response) ==
    response.sent /\ response.status = "200" /\ response.id \in Uuids

\* C24: get_textures of the MojangRetriever fetches the profile of the
\* resolved identity when the toggle is set, there is a database handle, the
\* mapping has a name for the user and the Mojang API resolves it; in every
\* other case it fetches the profile of the requested identity. It returns an
\* error only when the profile's fetch does, never for a failed lookup, and
\* with the toggle off it does not read the mapping.
C24_UsernameResolution ==
    GotTextures =>
        LET toggle == boot.config.use_database_username_in_mojang_requests
            found == ~http.db_fails /\ \E n \in Usernames :
                         <<http.user, n>> \in username_mappings
        IN  /\ http.fetched =
                  IF toggle /\ boot.config.db /\ found /\ Resolves(http.name_response)
                  THEN http.name_response.id
                  ELSE http.user
            /\ http.result.tag = "Err" => ~http.profiles[http.fetched].success
            /\ http.reads[Len(http.reads)] = "sessionserver.mojang.com"
            /\ ~toggle => http.reads = <<"sessionserver.mojang.com">>

\* With the toggle set, uuid-1's mapped name resolved to uuid-3, whose
\* profile was fetched and returned although uuid-1's own cannot be.
C24_Witness ==
    /\ GotTextures
    /\ boot.config.use_database_username_in_mojang_requests
    /\ http.user = "uuid-1"
    /\ http.record.tag = "Some"
    /\ http.fetched = "uuid-3"
    /\ ~http.profiles["uuid-1"].success
    /\ http.result.tag = "Ok"
    /\ http.reads = <<"username_mappings", "api.mojang.com", "sessionserver.mojang.com">>

\* --------------------------------------------------- the admin's uploads

\* A form field the request does not carry.
NoField == "none"

\* handlers.rs 315-446: admin_upload_texture up to the validated file. The
\* size and signature checks run as the file field is read; after the fields,
\* "User UUID not provided", then the username's upsert into
\* username_mappings, then "No file provided".
AdminUploadReceive(uuid, username, texture_type, file, modelSlim, db_fails) ==
    /\ http.pc = "idle"
    /\ LET mapped == file = NoFile \/ (Len(file) <= MAX_FILE_SIZE /\ is_png(file))
           writes == mapped /\ uuid # NoField /\ username # NoField /\ ~db_fails
           answer(status, body) ==
               Http("admin_upload_texture", "respond", uuid, texture_type, file,
                    modelSlim, Idle.hash, Idle.file_url, Response(status, body))
       IN  /\ http' =
                IF file # NoFile /\ Len(file) > MAX_FILE_SIZE
                THEN answer("400 BAD_REQUEST", "File size exceeds maximum allowed size")
                ELSE IF file # NoFile /\ ~is_png(file)
                THEN answer("400 BAD_REQUEST", "File must be a PNG image")
                ELSE IF uuid = NoField
                THEN answer("400 BAD_REQUEST", "User UUID not provided")
                ELSE IF username # NoField /\ db_fails
                THEN answer("500 INTERNAL_SERVER_ERROR", "Failed to update username mapping")
                ELSE IF file = NoFile
                THEN answer("400 BAD_REQUEST", "No file provided")
                ELSE [Http("admin_upload_texture", "store", uuid, texture_type, file,
                           modelSlim, UploadHash(file), Idle.file_url,
                           Response("-", "-"))
                        EXCEPT !.before = textures[<<uuid, texture_type>>]]
           /\ username_mappings' =
                IF writes THEN username_mappings \cup {<<uuid, username>>}
                ELSE username_mappings
    /\ UNCHANGED tasks
    /\ UNCHANGED <<storage_type, textures, uploaded>>
    /\ UNCHANGED <<chainVars, storageVars, bootVars>>

\* The service after main built its state, serving the two upload routes.
InitAdmin == ChainUnused /\ StorageInit /\ ServiceInit /\ BootUnused /\ TasksUnused

NextAdmin ==
    \/ \E u \in Users : \E t \in TextureType : \E f \in UploadFiles :
          \E m \in UploadOptions : UploadReceive(u, t, f, m)
    \/ \E u \in Users \cup {NoField} : \E n \in {"alice", NoField} :
          \E t \in TextureType : \E f \in UploadFiles : \E m \in UploadOptions :
              \E x \in BOOLEAN : AdminUploadReceive(u, n, t, f, m, x)
    \/ \E f \in StoreFaults(storage_type) : UploadStore(f)
    \/ \E x \in BOOLEAN : UploadUpsert(x)
    \/ Respond

SpecAdmin == InitAdmin /\ [][NextAdmin]_vars

\* C27: a step in which an upload, the user's or the admin's, is rejected
\* with 400 leaves the stored objects, the textures table and the
\* username_mappings table as they were.
C27_RejectedUploadChangesNothing ==
    [][(/\ http.pc = "idle"
        /\ http'.pc = "respond"
        /\ http'.handler \in {"upload_texture", "admin_upload_texture"}
        /\ http'.response.status = "400 BAD_REQUEST")
          => /\ objects' = objects
             /\ textures' = textures
             /\ username_mappings' = username_mappings]_vars

\* ------------------------------------------- requests served at the same time

\* One connection's request: the handler's local state (the upload's file,
\* hash and URL, the retriever's row), where the handler stands, and its
\* answer. during: a get_file ran while another request was writing the file
\* of the same hash.
Task(op, p, user, texture_type, file, hash, file_url, row, during, response) ==
    [op |-> op, pc |-> p, user |-> user, texture_type |-> texture_type,
     file |-> file, hash |-> hash, file_url |-> file_url, row |-> row,
     during |-> during, response |-> response]

IdleTask ==
    Task("none", "idle", "-", "-", <<>>, Idle.hash, Idle.file_url, NoRow, FALSE,
         Response("-", "-"))

\* Mutant: the file is removed before it is written again.
create_file_Unlinks(objs, key, bytes) == [objs EXCEPT ![key] = Absent]

\* local.rs 34: tokio::fs::write creates the file, or truncates the one that
\* is there, before it writes the bytes.
create_file(objs, key, bytes) == [objs EXCEPT ![key] = File(Truncated(bytes))]

\* Mutant: DO UPDATE SET file_hash only: a row that is there keeps its URL.
upsert_KeepsUrl(rows, user, texture_type, hash, file_url, metadata) ==
    [rows EXCEPT ![<<user, texture_type>>] =
        Row(hash, IF @.present THEN @.file_url ELSE file_url, metadata)]

\* handlers.rs 220-232 and 469-481: INSERT INTO textures ... ON CONFLICT
\* (user_uuid, texture_type) DO UPDATE SET file_hash, file_url, metadata: one
\* statement, which leaves one row for the key with the statement's values.
upsert(rows, user, texture_type, hash, file_url, metadata) ==
    [rows EXCEPT ![<<user, texture_type>>] = Row(hash, file_url, metadata)]

\* handlers.rs 119-197: an upload with a valid file has its hash.
TaskUploadReceive(i, user, texture_type, file) ==
    /\ tasks[i].pc = "idle"
    /\ tasks' = [tasks EXCEPT ![i] =
                   Task("upload_texture", "store", user, texture_type, file,
                        UploadHash(file), Idle.file_url, NoRow, FALSE,
                        Response("-", "-"))]
    /\ UNCHANGED username_mappings
    /\ UNCHANGED <<chainVars, storageVars, serviceVars, bootVars>>

\* The upload's store_file failed: 500 (handlers.rs 204-210).
StoreFailed(t) ==
    [t EXCEPT !.pc = "respond",
              !.response = Response("500 INTERNAL_SERVER_ERROR", "Failed to store file")]

\* local.rs 29-34: store_file on the Local backend, up to the file created or
\* truncated by tokio::fs::write; create_dir_all or the open can fail.
TaskStoreOpen(i, fault) ==
    /\ storage_type = "Local"
    /\ tasks[i].pc = "store"
    /\ IF fault = "unreachable"
       THEN /\ tasks' = [tasks EXCEPT ![i] = StoreFailed(@)]
            /\ UNCHANGED objects
       ELSE /\ tasks' = [tasks EXCEPT ![i].pc = "write"]
            /\ objects' = [objects EXCEPT !["Local"] =
                             create_file(@, StoreKey("Local", tasks[i].hash,
                                             file_extension(tasks[i].texture_type)),
                                         tasks[i].file)]
    /\ UNCHANGED <<lastCall, stored, storedHashes, faulted>>
    /\ UNCHANGED username_mappings
    /\ UNCHANGED <<chainVars, serviceVars, bootVars>>

\* local.rs 34-36: the bytes are written and the URL returned, or the write
\* breaks off.
TaskStoreWrite(i, fault) ==
    /\ storage_type = "Local"
    /\ tasks[i].pc = "write"
    /\ LET done == store_file("Local", objects["Local"], tasks[i].file, tasks[i].hash,
                              file_extension(tasks[i].texture_type), fault)
       IN  /\ objects' = [objects EXCEPT !["Local"] = done.objects]
           /\ tasks' = [tasks EXCEPT ![i] =
                          IF done.outcome.tag = "Ok"
                          THEN [@ EXCEPT !.pc = "upsert", !.file_url = done.outcome.value]
                          ELSE StoreFailed(@)]
    /\ UNCHANGED <<lastCall, stored, storedHashes, faulted>>
    /\ UNCHANGED username_mappings
    /\ UNCHANGED <<chainVars, serviceVars, bootVars>>

\* s3.rs store_file: one PUT, which stores the object or does not.
TaskStorePut(i, fault) ==
    /\ storage_type = "S3"
    /\ tasks[i].pc = "store"
    /\ LET done == store_file("S3", objects["S3"], tasks[i].file, tasks[i].hash,
                              file_extension(tasks[i].texture_type), fault)
       IN  /\ objects' = [objects EXCEPT !["S3"] = done.objects]
           /\ tasks' = [tasks EXCEPT ![i] =
                          IF done.outcome.tag = "Ok"
                          THEN [@ EXCEPT !.pc = "upsert", !.file_url = done.outcome.value]
                          ELSE StoreFailed(@)]
    /\ UNCHANGED <<lastCall, stored, storedHashes, faulted>>
    /\ UNCHANGED username_mappings
    /\ UNCHANGED <<chainVars, serviceVars, bootVars>>

\* handlers.rs 219-253: the upsert and the 200, or 500 when the statement
\* fails. uploaded keeps the file and URL of the upload whose statement was
\* applied last.
TaskUpsert(i, db_fails) ==
    /\ tasks[i].pc = "upsert"
    /\ IF db_fails
       THEN /\ tasks' = [tasks EXCEPT ![i].pc = "respond",
                            ![i].response = Response("500 INTERNAL_SERVER_ERROR",
                                                     "Failed to save texture")]
            /\ UNCHANGED <<textures, uploaded>>
       ELSE /\ textures' = upsert(textures, tasks[i].user, tasks[i].texture_type,
                                  tasks[i].hash, tasks[i].file_url, UploadMetadata(FALSE))
            /\ uploaded' = [uploaded EXCEPT ![<<tasks[i].user, tasks[i].texture_type>>] =
                              [known |-> TRUE, bytes |-> tasks[i].file,
                               url |-> tasks[i].file_url]]
            /\ tasks' = [tasks EXCEPT ![i].pc = "respond",
                            ![i].response = Response("200 OK",
                                [url |-> tasks[i].file_url, digest |-> tasks[i].hash,
                                 metadata |-> ResponseMetadata(FALSE)])]
    /\ UNCHANGED <<storage_type, http>>
    /\ UNCHANGED username_mappings
    /\ UNCHANGED <<chainVars, storageVars, bootVars>>

\* local.rs 39-46, s3.rs get_file: a get_file(hash, "png") of some request,
\* answered from the files as they are at that moment.
TaskGetFile(i, hash, unreachable) ==
    /\ tasks[i].pc = "idle"
    /\ tasks' = [tasks EXCEPT ![i] =
                   Task("get_file", "respond", "-", "-", <<>>, hash, Idle.file_url, NoRow,
                        \E j \in DOMAIN tasks : tasks[j].pc = "write" /\ tasks[j].hash = hash,
                        get_file(storage_type, objects[storage_type], hash, "png",
                                 unreachable))]
    /\ UNCHANGED username_mappings
    /\ UNCHANGED <<chainVars, storageVars, serviceVars, bootVars>>

\* storage_retriever.rs 63-74: get_texture_bytes: the row of (user, kind).
TaskSelect(i, user, texture_type, db_fails) ==
    /\ tasks[i].pc = "idle"
    /\ tasks' = [tasks EXCEPT ![i] =
                   IF db_fails
                   THEN Task("get_texture_bytes", "respond", user, texture_type, <<>>,
                             Idle.hash, Idle.file_url, NoRow, FALSE, Err("database error"))
                   ELSE IF ~textures[<<user, texture_type>>].present
                   THEN Task("get_texture_bytes", "respond", user, texture_type, <<>>,
                             Idle.hash, Idle.file_url, NoRow, FALSE, OkNone)
                   ELSE Task("get_texture_bytes", "read", user, texture_type, <<>>,
                             textures[<<user, texture_type>>].file_hash, Idle.file_url,
                             textures[<<user, texture_type>>], FALSE, Response("-", "-"))]
    /\ UNCHANGED username_mappings
    /\ UNCHANGED <<chainVars, storageVars, serviceVars, bootVars>>

\* storage_retriever.rs 76-94: get_file of the row's hash, then the bytes.
TaskRead(i, unreachable) ==
    /\ tasks[i].pc = "read"
    /\ LET got == get_file(storage_type, objects[storage_type], tasks[i].hash,
                           file_extension(tasks[i].texture_type), unreachable)
       IN  tasks' = [tasks EXCEPT ![i].pc = "respond",
                       ![i].response =
                          IF got.tag = "Err" THEN Err(got.value.cause)
                          ELSE OkSome(RetrievedTextureBytes(tasks[i].hash, got.value,
                                          ParseMetadata(tasks[i].row.metadata)))]
    /\ UNCHANGED username_mappings
    /\ UNCHANGED <<chainVars, storageVars, serviceVars, bootVars>>

\* The answer is sent; the connection takes its next request.
TaskDone(i) ==
    /\ tasks[i].pc = "respond"
    /\ tasks' = [tasks EXCEPT ![i] = IdleTask]
    /\ UNCHANGED username_mappings
    /\ UNCHANGED <<chainVars, storageVars, serviceVars, bootVars>>

\* The service after main built its state, with its connections.
InitConcurrent ==
    /\ ChainUnused /\ StorageInit /\ ServiceInit /\ BootUnused
    /\ username_mappings = {}
    /\ tasks = [i \in Connections |-> IdleTask]

\* The requests of the connections interleave at their awaits. The uploads
\* are skins.
NextConcurrent ==
    \E i \in Connections :
        \/ \E u \in Users : \E f \in Payloads : TaskUploadReceive(i, u, "SKIN", f)
        \/ \E f \in {"none", "unreachable"} : TaskStoreOpen(i, f)
        \/ \E f \in {"none", "interrupted"} : TaskStoreWrite(i, f)
        \/ \E f \in StoreFaults("S3") : TaskStorePut(i, f)
        \/ \E x \in BOOLEAN : TaskUpsert(i, x)
        \/ \E h \in Digests : \E y \in BOOLEAN : TaskGetFile(i, h, y)
        \/ \E u \in Users : \E x \in BOOLEAN : TaskSelect(i, u, "SKIN", x)
        \/ \E y \in BOOLEAN : TaskRead(i, y)
        \/ TaskDone(i)

SpecConcurrent == InitConcurrent /\ [][NextConcurrent]_vars

\* An upload of connection i that was answered 200.
UploadAnswered(i) ==
    /\ tasks[i].op = "upload_texture"
    /\ tasks[i].pc = "respond"
    /\ tasks[i].response.status = "200 OK"

\* C21: after any interleaving of uploads, the one record of a (user, kind)
\* is there exactly when an upsert for it was applied, and its digest and its
\* URL are both those of the upload whose upsert was applied last: the digest
\* is the hash of that upload's bytes and the URL the one its store_file
\* returned for that digest.
C21_RecordIsOfLastUpsert ==
    \A k \in Users \X TextureType :
        /\ textures[k].present <=> uploaded[k].known
        /\ textures[k].present =>
              /\ textures[k].file_hash = calculate_hash(uploaded[k].bytes)
              /\ textures[k].file_url = uploaded[k].url
              /\ textures[k].file_url =
                     generate_url(storage_type, textures[k].file_hash, file_extension(k[2]))

\* Two uploads of different files for one (user, kind) were both answered 200,
\* and the record is of the second connection's.
C21_Witness ==
    /\ UploadAnswered(1) /\ UploadAnswered(2)
    /\ tasks[1].user = tasks[2].user
    /\ tasks[1].hash # tasks[2].hash
    /\ textures[<<tasks[2].user, "SKIN">>].file_hash = tasks[2].hash

\* C28: in every state of every interleaving of uploads, failed ones
\* included, the digest of every record names an object the backend holds
\* under the key get_file reads, and no get_texture_bytes of the Storage
\* Retriever fails because the object is not there.
C28_RecordedObjectIsHeld ==
    /\ \A k \in Users \X TextureType :
          textures[k].present =>
             objects[storage_type][GetKey(storage_type, textures[k].file_hash,
                                          file_extension(k[2]))].exists
    /\ \A i \in Connections :
          (tasks[i].op = "get_texture_bytes" /\ tasks[i].pc = "respond"
             /\ tasks[i].response.tag = "Err")
          => tasks[i].response.value # "no such file or key"

\* get_texture_bytes answered the bytes of a record while the other
\* connection's upload of the same digest had failed in store_file.
C28_Witness ==
    \E i, j \in Connections :
        /\ tasks[i].op = "get_texture_bytes" /\ tasks[i].pc = "respond"
        /\ tasks[i].response.tag = "Some"
        /\ tasks[j].op = "upload_texture" /\ tasks[j].pc = "respond"
        /\ tasks[j].response.status = "500 INTERNAL_SERVER_ERROR"
        /\ tasks[j].hash = tasks[i].hash

\* C29: on the Local backend a get_file(d, ext) that runs while a
\* store_file(B, d, ext) is writing fails or returns a complete payload whose
\* hash is d, never an empty or partly written one.
C29_ConcurrentReadIsComplete ==
    \A i \in Connections :
        (/\ storage_type = "Local"
         /\ tasks[i].op = "get_file" /\ tasks[i].pc = "respond"
         /\ tasks[i].during
         /\ tasks[i].response.tag = "Ok")
        => /\ tasks[i].response.value \in Payloads
           /\ calculate_hash(tasks[i].response.value) = tasks[i].hash

====
